---- MODULE Spec2Model ----
(***************************************************************************)
(* Model of the GAS graph framework (src/src/GAS_framework): the adjacency *)
(* list graph, the asynchronous multi-threaded engine with its dining-     *)
(* philosophers style neighbourhood locking, the scratchpad (SPM) manager  *)
(* used for prefetching, and the SSSP sample vertex program.               *)
(*                                                                         *)
(* Vertex ids are 0-based as in the code; TLA+ sequences are 1-based, so   *)
(* the vertex table slot of vid is vertices[vid + 1].                      *)
(***************************************************************************)
EXTENDS Integers, Sequences, FiniteSets, TLC

\* ------------------------------------------------------------------------
\* Bounds of the model (not program constants)
\* ------------------------------------------------------------------------
\* largest worker pool explored (num_threads ranges over 1..MaxThreads)
MaxThreads == 2
\* number of context.signal calls the generic vertex program may issue in a run
MaxSignals == 2
\* largest look-ahead distance explored for the SSSP run
MaxLookAhead == 1

\* ------------------------------------------------------------------------
\* Program constants
\* ------------------------------------------------------------------------
\* new_arch::SPM_SIZE, in bytes
SPM_SIZE == 256
\* sizeof(spm_addr_type) == sizeof(word) == 8
SPM_POINTER_SZ == 8
\* id of a default-constructed vertex_type
PLACEHOLDER_ID == 0 - 1

VARIABLES
    g,                   \* the graph: vertex table, vertex objects, edges
    num_threads,         \* async_engine::num_threads
    load_ahead_distance, \* async_engine::load_ahead_distance
    program,             \* which vertex program the engine is instantiated with
    active_list,         \* async_engine::active_list
    vertex_states,       \* async_engine::vertex_states
    in_use,              \* async_engine::in_use
    num_idle_threads,    \* async_engine::num_idle_threads
    phase,               \* position of the driver: constructed / started / returned
    pc,                  \* position of each worker thread
    job_vid,             \* thread_start's local job_vid of each worker
    block,               \* the vertex whose cv_exclusive_access a worker waits on
    loc,                 \* execute_vprog's locals of each worker (the locals of its SPM
                         \* call, for a worker that calls the SPM interface directly)
    SPM,                 \* new_arch::SPM, the word array
    counters,            \* spm_hits, spm_misses, num_failed_loads
    aborted,             \* "none", or why the process was terminated
    signals_left,        \* signals the generic program may still issue
    sig_log,             \* history: the last internal_signal call (vertex, branch)
    call,                \* history: the last call of the graph, SPM or context interface
                         \* (n counts the calls a driver of the SPM interface has made)
    caching_enabled,     \* async_engine::caching_enabled
    gather_cache,        \* async_engine::gather_cache
    has_cache,           \* async_engine::has_cache
    posting,             \* the gather_cache[vid] += delta each worker is in the middle of
    cache_hist,          \* history, per vertex: the accum saved by its last full gather plus the
                         \* deltas posted since; whether its cache was cleared since
    running_vertices,    \* older engine (src/src/async_engine.hpp): vertices being run by a thread
    deferred_activation_list  \* older engine: running vertices signalled during their run

vars == <<g, num_threads, load_ahead_distance, program, active_list,
          vertex_states, in_use, num_idle_threads, phase, pc, job_vid, block,
          loc, SPM, counters, aborted, signals_left, sig_log, call,
          caching_enabled, gather_cache, has_cache, posting, cache_hist,
          running_vertices, deferred_activation_list>>

\* the two sets only the older engine keeps; the current engine has neither
deferred_vars == <<running_vertices, deferred_activation_list>>

\* the gather cache of the engine and the bookkeeping of the model about it
cache_vars == <<caching_enabled, gather_cache, has_cache, posting, cache_hist>>

\* no interface call recorded
NoCall == [op |-> "none", args |-> <<>>, ret |-> FALSE, n |-> 0]

Min(S) == CHOOSE x \in S : \A y \in S : x <= y

Range(s) == {s[i] : i \in 1..Len(s)}

\* ------------------------------------------------------------------------
\* Graph store (simple_graph.hpp)
\* ------------------------------------------------------------------------
\* A graph is a record
\*   vertices : the vertex table, a sequence of references into objs
\*   objs     : the heap of vertex_type objects
\*   edges    : the heap of edge_type objects
\* Vertex and edge data live in the objects, as in the code.
EmptyGraph == [vertices |-> <<>>, objs |-> <<>>, edges |-> <<>>]

\* A 64-bit data word (long int vertex / edge data, an SPM payload word) is
\* kept as its two 32-bit halves, each written as a signed 32-bit number:
\* hi carries the sign of the long, lo is the bit pattern of the low half.
\* LongOf is the sign extension of an int to a long.
LongOf(n) == [hi |-> IF n < 0 THEN 0 - 1 ELSE 0, lo |-> n]

\* vertex_type() : vid(-1), no edges; the data member is left unset by the
\* constructor and is never read by the runs modelled here
PlaceholderVertex ==
    [vid |-> PLACEHOLDER_ID, out_edges |-> <<>>, in_edges |-> <<>>, vdata |-> LongOf(0)]

\* vertex_type(vid, data)
NewVertex(vid, data) ==
    [vid |-> vid, out_edges |-> <<>>, in_edges |-> <<>>, vdata |-> LongOf(data)]

\* Graph::num_vertices
NumVertices(gr) == Len(gr.vertices)

\* Graph::vertex(vid): *(vertices.at(vid))
VertexOf(gr, vid) == gr.objs[gr.vertices[vid + 1]]

\* Graph::add_vertex, the graph it leaves behind.  The resize evaluates
\* new vertex_type() once and fills every new slot with that one pointer.
add_vertex(gr, vid, data) ==
    IF vid < 0 THEN gr
    ELSE
      LET grown == vid >= Len(gr.vertices)
          objs1 == IF grown THEN Append(gr.objs, PlaceholderVertex) ELSE gr.objs
          ph    == Len(objs1)
          tab1  == IF grown
                   THEN [i \in 1..(vid + 1) |->
                            IF i <= Len(gr.vertices) THEN gr.vertices[i] ELSE ph]
                   ELSE gr.vertices
      IN IF objs1[tab1[vid + 1]].vid > 0
         THEN [gr EXCEPT !.vertices = tab1, !.objs = objs1]
         ELSE [gr EXCEPT !.vertices = [tab1 EXCEPT ![vid + 1] = Len(objs1) + 1],
                         !.objs = Append(objs1, NewVertex(vid, data))]

\* Graph::add_vertex, its return value
add_vertex_ret(gr, vid) ==
    IF vid < 0 THEN FALSE
    ELSE IF vid >= Len(gr.vertices) THEN TRUE
    ELSE ~(gr.objs[gr.vertices[vid + 1]].vid > 0)

\* the guard of Graph::add_edge: the source is validated twice, the target never
add_edge_rejects(gr, source, target) ==
    \/ source = target
    \/ source < 0 \/ source >= Len(gr.vertices) \/ VertexOf(gr, source).vid < 0
    \/ source < 0 \/ source >= Len(gr.vertices) \/ VertexOf(gr, source).vid < 0

\* edge_type::target().id() of edge e
TargetId(gr, e) == VertexOf(gr, gr.edges[e].target_vid).vid

\* edge_type::source().id() of edge e
SourceId(gr, e) == VertexOf(gr, gr.edges[e].source_vid).vid

\* Graph::add_edge, the graph it leaves behind.  A target outside the vertex
\* table makes vertices[target] an out-of-bounds access; the model only
\* builds graphs with targets inside the table and leaves the graph alone
\* otherwise.
add_edge(gr, source, target, data) ==
    IF add_edge_rejects(gr, source, target) THEN gr
    ELSE IF target < 0 \/ target >= Len(gr.vertices) THEN gr
    ELSE
      LET tref  == gr.vertices[target + 1]
          sref  == gr.vertices[source + 1]
          tout  == gr.objs[tref].out_edges
          opp   == {tout[i] : i \in {j \in 1..Len(tout) : TargetId(gr, tout[j]) = source}}
          e     == Len(gr.edges) + 1
          edges1 == [i \in 1..Len(gr.edges) |->
                       IF i \in opp THEN [gr.edges[i] EXCEPT !.has_opposite = TRUE]
                       ELSE gr.edges[i]]
          newe  == [source_vid |-> source, target_vid |-> target, edata |-> LongOf(data),
                    has_opposite |-> opp # {}]
          objs1 == [gr.objs EXCEPT ![sref].out_edges = Append(@, e)]
          objs2 == [objs1 EXCEPT ![tref].in_edges = Append(@, e)]
      IN [gr EXCEPT !.edges = Append(edges1, newe), !.objs = objs2]

\* A build script is a sequence of calls <<"v", vid, data>> (add_vertex) and
\* <<"e", source, target, data>> (add_edge), applied in order as a driver's
\* main() does.
RECURSIVE BuildGraph(_, _)
BuildGraph(gr, script) ==
    IF script = <<>> THEN gr
    ELSE LET c == Head(script)
             g1 == IF c[1] = "v" THEN add_vertex(gr, c[2], c[3])
                   ELSE add_edge(gr, c[2], c[3], c[4])
         IN BuildGraph(g1, Tail(script))

\* star: centre 0, leaves 1 and 2, edges 0->1 and 0->2
StarScript == << <<"v", 0, 0>>, <<"v", 1, 0>>, <<"v", 2, 0>>,
                 <<"e", 0, 1, 1>>, <<"e", 0, 2, 1>> >>
\* a doubly connected pair 0<->1 and an isolated vertex 2
PairScript == << <<"v", 0, 0>>, <<"v", 1, 0>>, <<"v", 2, 0>>,
                 <<"e", 0, 1, 1>>, <<"e", 1, 0, 1>> >>
\* path 0->1->2
PathScript == << <<"v", 0, 0>>, <<"v", 1, 0>>, <<"v", 2, 0>>,
                 <<"e", 0, 1, 1>>, <<"e", 1, 2, 1>> >>
\* non-contiguous ids 0 and 2 with the edge 0->2: slot 1 is a placeholder
GapScript == << <<"v", 0, 0>>, <<"v", 2, 0>>, <<"e", 0, 2, 1>> >>
\* the SSSP chain 0->1 (2), 1->2 (3), 2->3 (4); data 0 at the source, -1 elsewhere
ChainScript == << <<"v", 0, 0>>, <<"v", 1, 0 - 1>>, <<"v", 2, 0 - 1>>, <<"v", 3, 0 - 1>>,
                  <<"e", 0, 1, 2>>, <<"e", 1, 2, 3>>, <<"e", 2, 3, 4>> >>

\* graphs whose vertex table has no placeholder slot
DenseScripts == {<<>>, StarScript, PairScript, PathScript}
\* graphs built with non-contiguous ids
GapScripts == {GapScript}

\* the vids of the vertex table, 0 .. num_vertices() - 1
Vids == 0..(NumVertices(g) - 1)

\* g.vertex(vid) of the engine's graph
Vertex(vid) == VertexOf(g, vid)

\* the ids the engine derives from the in- and out-edges of a vertex object
InNeighIds(v) == [i \in 1..Len(v.in_edges) |-> SourceId(g, v.in_edges[i])]
OutNeighIds(v) == [i \in 1..Len(v.out_edges) |-> TargetId(g, v.out_edges[i])]

\* closed neighbourhood N(vid): the vertex, its in- and its out-neighbours
Neigh(vid) == {vid} \cup Range(InNeighIds(Vertex(vid))) \cup Range(OutNeighIds(Vertex(vid)))

\* slots of the vertex table that hold a default-constructed vertex
IsPlaceholder(vid) == Vertex(vid).vid < 0

\* ------------------------------------------------------------------------
\* SPM device model (new_arch.hpp) and SPM manager (spm_interface.hpp)
\* ------------------------------------------------------------------------
\* SPM addresses are byte addresses as in the code; the device is an array
\* of SPM_SIZE / 8 words.  With the 16-byte slots of the SSSP instantiation
\* every even word is a metadata or tag word (kept as an integer address)
\* and every odd word from VSLAB_START on is a payload word (kept as a pair
\* of halves, see LongOf; the free-list link of an empty slot is a payload
\* word too).
ADDR_VSLAB_END == 0
ADDR_VEMPTY_HEAD == SPM_POINTER_SZ
ADDR_ESLAB_END == 2 * SPM_POINTER_SZ
ADDR_EEMPTY_HEAD == 3 * SPM_POINTER_SZ
VSLAB_START == 4 * SPM_POINTER_SZ
SPM_NULL == 0
\* sizeof(vertex_data_type) + sizeof(vertex_data_type *) for long int data
v_slot_size == 16
\* sizeof(edge_data_type) + sizeof(edge_data_type *) for long int data
e_slot_size == 16

\* main-memory address of the data member of vertex object ref / of edge e:
\* distinct non-null addresses, vertex and edge data never at the same one
AddrOfVData(ref) == 4096 + 64 * ref
AddrOfEData(e) == 8192 + 64 * e

\* new_arch::SPM2REG
SPM2REG(S, spm_addr) == S[spm_addr \div 8]

\* new_arch::REG2SPM
REG2SPM(S, spm_addr, value) == [S EXCEPT ![spm_addr \div 8] = value]

\* new_arch::NBL2SPM for one 8-byte datum: size / 8 = 1 word is copied
NBL2SPM(S, datum, spm_addr) == [S EXCEPT ![spm_addr \div 8] = datum]

\* new_arch::SPM2MEM for one 8-byte datum: size / 8 = 1 store through an
\* unsigned int pointer, so only the low half of the datum is replaced
SPM2MEM(datum, S, spm_addr) == [datum EXCEPT !.lo = S[spm_addr \div 8].lo]

\* a payload word read as an SPM address (a free-list link)
AsAddr(w) == IF w.hi = 0 THEN w.lo ELSE 0 - 1

\* an SPM address written into a payload word
AsWord(a) == [hi |-> 0, lo |-> a]

\* spm_interface(): the metadata words; the slot words are whatever new[]
\* returned and are not read before they are written
SPMInit ==
    [w \in 0..((SPM_SIZE \div 8) - 1) |->
        IF w = ADDR_VSLAB_END \div 8 THEN VSLAB_START
        ELSE IF w = ADDR_VEMPTY_HEAD \div 8 THEN SPM_NULL
        ELSE IF w = ADDR_ESLAB_END \div 8 THEN SPM_SIZE - e_slot_size
        ELSE IF w = ADDR_EEMPTY_HEAD \div 8 THEN SPM_NULL
        ELSE IF w % 2 = 0 THEN 0 ELSE AsWord(0)]

CountersInit == [spm_hits |-> 0, spm_misses |-> 0, num_failed_loads |-> 0]

\* a search of the vertex slab that finds nothing
find_vdata_blind(S, tag) == SPM_NULL

\* a search of the vertex slab that takes the first slot in use without
\* comparing its tag
find_vdata_untested(S, tag) ==
    IF SPM2REG(S, ADDR_VSLAB_END) > VSLAB_START /\ SPM2REG(S, VSLAB_START) # SPM_NULL
    THEN VSLAB_START
    ELSE SPM_NULL

\* spm_interface::find_vdata for the vertex data at main-memory address tag
find_vdata(S, tag) ==
    LET end == SPM2REG(S, ADDR_VSLAB_END)
        hit == {cur \in VSLAB_START..(end - 1) :
                    /\ (cur - VSLAB_START) % v_slot_size = 0
                    /\ SPM2REG(S, cur) # SPM_NULL
                    /\ SPM2REG(S, cur) = tag}
    IN IF hit = {} THEN SPM_NULL ELSE Min(hit)

\* spm_interface::find_edata for the edge data at main-memory address tag
find_edata(S, tag) ==
    LET end == SPM2REG(S, ADDR_ESLAB_END)
        top == SPM_SIZE - e_slot_size
        hit == {cur \in (end + 1)..top :
                    /\ (top - cur) % e_slot_size = 0
                    /\ SPM2REG(S, cur) # SPM_NULL
                    /\ SPM2REG(S, cur) = tag}
    IN IF hit = {} THEN SPM_NULL ELSE top - Min({top - cur : cur \in hit})

\* spm_interface::internal_load_vdata
internal_load_vdata(S, tag, datum, addr) ==
    NBL2SPM(REG2SPM(S, addr, tag), datum, addr + 8)

\* spm_interface::internal_load_edata
internal_load_edata(S, tag, datum, addr) ==
    NBL2SPM(REG2SPM(S, addr, tag), datum, addr + 8)

\* the while loop of the compaction paths: walk the free list from cur until
\* the slot whose link is last, or to the end of the list
RECURSIVE ScanParent(_, _, _)
ScanParent(S, cur, last) ==
    IF cur # SPM_NULL /\ AsAddr(SPM2REG(S, cur + 8)) # last
    THEN ScanParent(S, AsAddr(SPM2REG(S, cur + 8)), last)
    ELSE cur

\* load_vdata's compaction of the edge slab (lines 158-197), entered with a
\* non-empty edge free list; end is the vertex slab end read before
CompactEdgeSlab(S, edge_head, end) ==
    LET edge_end == SPM2REG(S, ADDR_ESLAB_END)
        last == edge_end + e_slot_size
        end_mm_addr == SPM2REG(S, last)
        S1 == IF end_mm_addr = SPM_NULL
              THEN IF SPM2REG(S, ADDR_EEMPTY_HEAD) = last
                   THEN REG2SPM(S, ADDR_EEMPTY_HEAD, SPM_NULL)
                   ELSE LET cur == ScanParent(S, SPM2REG(S, ADDR_EEMPTY_HEAD), last)
                        IN IF cur # SPM_NULL
                           THEN REG2SPM(S, cur + 8, SPM2REG(S, last + 8))
                           ELSE S
              ELSE LET edge_tail == AsAddr(SPM2REG(S, edge_head + 8))
                       Sa == REG2SPM(S, ADDR_EEMPTY_HEAD, edge_tail)
                       end_data == SPM2REG(Sa, last + 8)
                       Sb == REG2SPM(Sa, edge_head, end_mm_addr)
                   IN REG2SPM(Sb, edge_head + 8, end_data)
        S2 == REG2SPM(S1, ADDR_ESLAB_END, edge_end + e_slot_size)
    IN REG2SPM(S2, ADDR_VSLAB_END, end + v_slot_size)

\* load_edata's compaction of the vertex slab (lines 313-349), entered with a
\* non-empty vertex free list
CompactVertexSlab(S, vertex_head) ==
    LET vertex_end == SPM2REG(S, ADDR_VSLAB_END)
        last == vertex_end - v_slot_size
        end_mm_addr == SPM2REG(S, last)
        S1 == IF end_mm_addr = SPM_NULL
              THEN IF SPM2REG(S, ADDR_VEMPTY_HEAD) = last
                   THEN REG2SPM(S, ADDR_VEMPTY_HEAD, SPM_NULL)
                   ELSE LET cur == ScanParent(S, SPM2REG(S, ADDR_VEMPTY_HEAD), last)
                        IN IF cur # SPM_NULL
                           THEN REG2SPM(S, cur + 8, SPM2REG(S, last + 8))
                           ELSE S
              ELSE LET vertex_tail == AsAddr(SPM2REG(S, vertex_head + 8))
                       Sa == REG2SPM(S, ADDR_VEMPTY_HEAD, vertex_tail)
                       end_data == SPM2REG(Sa, last + 8)
                       Sb == REG2SPM(Sa, vertex_head, end_mm_addr)
                   IN REG2SPM(Sb, vertex_head + 8, end_data)
    IN REG2SPM(S1, ADDR_VSLAB_END, vertex_end - v_slot_size)

\* The SPM calls below act on a record st = [SPM, objs, counters]: the word
\* array, the vertex objects (main memory, written by the store-back) and
\* the counters.  Each yields [st, ret]: the state left behind and the
\* call's return value.

\* a failed load that is not counted
failed_load_uncounted(st) == st

\* num_failed_loads++ on the path of load_vdata / load_edata that finds no slot
failed_load(st) == [st EXCEPT !.counters.num_failed_loads = @ + 1]

\* spm_interface::load_vdata for vertex object ref
load_vdata(st, ref) ==
    LET S == st.SPM
        tag == AddrOfVData(ref)
        datum == st.objs[ref].vdata
        head == SPM2REG(S, ADDR_VEMPTY_HEAD)
        end == SPM2REG(S, ADDR_VSLAB_END)
        edge_head == SPM2REG(S, ADDR_EEMPTY_HEAD)
    IN IF find_vdata(S, tag) # SPM_NULL THEN [st |-> st, ret |-> FALSE]
       ELSE IF head # SPM_NULL
       THEN LET tail == AsAddr(SPM2REG(S, head + 8))
                S1 == REG2SPM(S, ADDR_VEMPTY_HEAD, tail)
            IN [st |-> [st EXCEPT !.SPM = internal_load_vdata(S1, tag, datum, head)],
                ret |-> TRUE]
       ELSE IF end + v_slot_size <= SPM2REG(S, ADDR_ESLAB_END) + e_slot_size
       THEN LET S1 == REG2SPM(S, ADDR_VSLAB_END, end + v_slot_size)
            IN [st |-> [st EXCEPT !.SPM = internal_load_vdata(S1, tag, datum, end)],
                ret |-> TRUE]
       ELSE IF edge_head # SPM_NULL
       THEN LET S1 == CompactEdgeSlab(S, edge_head, end)
            IN [st |-> [st EXCEPT !.SPM = internal_load_vdata(S1, tag, datum, end)],
                ret |-> TRUE]
       ELSE [st |-> failed_load(st), ret |-> FALSE]

\* spm_interface::load_edata for edge e with data datum
load_edata(st, e, datum) ==
    LET S == st.SPM
        tag == AddrOfEData(e)
        head == SPM2REG(S, ADDR_EEMPTY_HEAD)
        end == SPM2REG(S, ADDR_ESLAB_END)
        vertex_head == SPM2REG(S, ADDR_VEMPTY_HEAD)
    IN IF head # SPM_NULL
       THEN LET tail == AsAddr(SPM2REG(S, head + 8))
                S1 == REG2SPM(S, ADDR_EEMPTY_HEAD, tail)
            IN [st |-> [st EXCEPT !.SPM = internal_load_edata(S1, tag, datum, head)],
                ret |-> TRUE]
       ELSE IF end - e_slot_size >= SPM2REG(S, ADDR_VSLAB_END)
       THEN LET S1 == REG2SPM(S, ADDR_ESLAB_END, end - e_slot_size)
            IN [st |-> [st EXCEPT !.SPM = internal_load_edata(S1, tag, datum, end)],
                ret |-> TRUE]
       ELSE IF vertex_head # SPM_NULL
       THEN LET S1 == CompactVertexSlab(S, vertex_head)
                end2 == SPM2REG(S1, ADDR_ESLAB_END)
                S2 == REG2SPM(S1, ADDR_ESLAB_END, end2 - e_slot_size)
            IN [st |-> [st EXCEPT !.SPM = internal_load_edata(S2, tag, datum, end2)],
                ret |-> TRUE]
       ELSE [st |-> failed_load(st), ret |-> FALSE]

\* spm_interface::remove_vdata for vertex object ref: the payload is stored
\* back to the vertex's data in main memory, then the slot is freed
remove_vdata(st, ref) ==
    LET S == st.SPM
        rm_addr == find_vdata(S, AddrOfVData(ref))
        objs1 == [st.objs EXCEPT ![ref].vdata = SPM2MEM(@, S, rm_addr + 8)]
        S1 == IF rm_addr + v_slot_size = SPM2REG(S, ADDR_VSLAB_END)
              THEN REG2SPM(S, ADDR_VSLAB_END, rm_addr)
              ELSE LET head == SPM2REG(S, ADDR_VEMPTY_HEAD)
                       Sa == REG2SPM(S, rm_addr, SPM_NULL)
                       Sb == REG2SPM(Sa, rm_addr + 8, AsWord(head))
                   IN REG2SPM(Sb, ADDR_VEMPTY_HEAD, rm_addr)
    IN IF rm_addr = SPM_NULL THEN [st |-> st, ret |-> FALSE]
       ELSE [st |-> [st EXCEPT !.SPM = S1, !.objs = objs1], ret |-> TRUE]

\* spm_interface::remove_edata for edge e: the store-back is commented out
\* in the code, the slot is freed
remove_edata(st, e) ==
    LET S == st.SPM
        rm_addr == find_edata(S, AddrOfEData(e))
        S1 == IF rm_addr - e_slot_size = SPM2REG(S, ADDR_ESLAB_END)
              THEN REG2SPM(S, ADDR_ESLAB_END, rm_addr)
              ELSE LET head == SPM2REG(S, ADDR_EEMPTY_HEAD)
                       Sa == REG2SPM(S, rm_addr, SPM_NULL)
                       Sb == REG2SPM(Sa, rm_addr + 8, AsWord(head))
                   IN REG2SPM(Sb, ADDR_EEMPTY_HEAD, rm_addr)
    IN IF rm_addr = SPM_NULL THEN [st |-> st, ret |-> FALSE]
       ELSE [st |-> [st EXCEPT !.SPM = S1], ret |-> TRUE]

\* spm_interface::write_vdata of the word w_data for vertex object ref
write_vdata(st, ref, w_data) ==
    LET addr == find_vdata(st.SPM, AddrOfVData(ref))
    IN IF addr = SPM_NULL THEN [st |-> st, ret |-> FALSE]
       ELSE [st |-> [st EXCEPT !.SPM = REG2SPM(@, addr + 8, w_data)], ret |-> TRUE]

\* spm_interface::write_edata of the word w_data for edge e
write_edata(st, e, w_data) ==
    LET addr == find_edata(st.SPM, AddrOfEData(e))
    IN IF addr = SPM_NULL THEN [st |-> st, ret |-> FALSE]
       ELSE [st |-> [st EXCEPT !.SPM = REG2SPM(@, addr + 8, w_data)], ret |-> TRUE]

\* spm_interface::read_vdata, whether the data of vertex object ref is found
read_vdata_ret(st, ref) == find_vdata(st.SPM, AddrOfVData(ref)) # SPM_NULL

\* spm_interface::read_edata, whether the data of edge e is found
read_edata_ret(st, e) == find_edata(st.SPM, AddrOfEData(e)) # SPM_NULL

\* spm_interface::read_vdata, the word it leaves in ret_data: the payload of
\* the slot found, nothing (the default word here) when none is found
read_vdata_data(st, ref) ==
    LET addr == find_vdata(st.SPM, AddrOfVData(ref))
    IN IF addr = SPM_NULL THEN LongOf(0) ELSE SPM2REG(st.SPM, addr + 8)

\* spm_interface::read_edata, the word it leaves in ret_data
read_edata_data(st, e) ==
    LET addr == find_edata(st.SPM, AddrOfEData(e))
    IN IF addr = SPM_NULL THEN LongOf(0) ELSE SPM2REG(st.SPM, addr + 8)

\* ------------------------------------------------------------------------
\* Vertex programs
\* ------------------------------------------------------------------------
\* "SSSP" is SSSP_program of sample_programs/SSSP.cpp.  "DEFAULT" is a program
\* that keeps the interface's default edge directions (gather over in-edges,
\* scatter over out-edges), sums the edge data in gather, leaves the vertex
\* data alone in apply and decides freely, per scattered edge, whether to
\* signal the far endpoint.  "PAGERANK" is pagerank_program of
\* sample_programs/pagerank.cpp with its double ranks kept in fixed point,
\* RankScale units to 1.0.  "CLEARING" is the same program with
\* context.clear_gather_cache(edge.target()) in the place of post_delta.
\* "RESIGNAL" is a program without vertex or edge data that never converges:
\* its gather returns 0, its apply does nothing and its scatter signals
\* edge.target() on every out-edge.
Programs == {"SSSP", "DEFAULT", "PAGERANK", "CLEARING", "RESIGNAL"}

\* the programs that compute ranks
RankPrograms == {"PAGERANK", "CLEARING"}

\* the fixed-point unit: the rank 1.0 every vertex starts with
RankScale == 100

\* gather_type(): min_container() has min = 0, an int is 0
gather_type_default == 0

\* the low 32 bits of the sum of two longs, as the int that min_container(int)
\* keeps: the sum of the low halves (the model checker reports an overflow of
\* that sum instead of wrapping it)
IntOfSum(a, b) == a.lo + b.lo

\* gather_edges of the program
gather_edges(prog) == "IN_EDGES"

\* a gather that leaves the edge weight out of the distance
gather_unweighted(prog, objs, e) ==
    LET src == objs[g.vertices[g.edges[e].source_vid + 1]].vdata
    IN IF prog = "SSSP"
       THEN IF src.hi >= 0 THEN src.lo ELSE 0 - 1
       ELSE g.edges[e].edata.lo

\* gather of the program on edge e of the graph with vertex objects objs
gather(prog, objs, e) ==
    LET src == objs[g.vertices[g.edges[e].source_vid + 1]].vdata
    IN IF prog = "SSSP"
       THEN IF src.hi >= 0 THEN IntOfSum(src, g.edges[e].edata) ELSE 0 - 1
       ELSE IF prog \in RankPrograms
       THEN src.lo \div Len(objs[g.vertices[g.edges[e].source_vid + 1]].out_edges)
       ELSE IF prog = "RESIGNAL" THEN 0
       ELSE g.edges[e].edata.lo

\* gather_type's operator+= : min_container::operator+= for SSSP, int addition
\* otherwise
plus_eq(prog, left, right) ==
    IF prog = "SSSP"
    THEN IF left < 0 \/ (right > 0 /\ right < left) THEN right ELSE left
    ELSE left + right

\* the comparison vertex.data() > total.min of a long with an int
LongGreaterInt(d, n) ==
    IF d.hi > 0 THEN TRUE
    ELSE IF d.hi < 0 THEN FALSE
    ELSE d.lo < 0 \/ d.lo > n

\* SSSP_program::apply, whether it decides to scatter (do_scatter)
apply_do_scatter(prog, data, total) ==
    IF prog = "SSSP"
    THEN total > 0 /\ (data.hi < 0 \/ LongGreaterInt(data, total))
    ELSE TRUE

\* apply of the program, the vertex data it leaves behind
apply_data(prog, data, total) ==
    IF prog = "SSSP"
    THEN (IF apply_do_scatter(prog, data, total) THEN LongOf(total) ELSE data)
    ELSE IF prog \in RankPrograms
    THEN LongOf((total * 85) \div RankScale + 15)   \* total * 0.85 + 0.15
    ELSE data

\* pagerank_program::apply, the member delta it leaves behind: newval - prevval
apply_delta(prog, data, total) ==
    IF prog \in RankPrograms THEN apply_data(prog, data, total).lo - data.lo ELSE 0

\* scatter_edges of the program
scatter_edges(prog, do_scatter) ==
    IF prog = "SSSP" THEN (IF do_scatter THEN "OUT_EDGES" ELSE "NO_EDGES")
    ELSE "OUT_EDGES"

\* ------------------------------------------------------------------------
\* Engine (async_engine.hpp)
\* ------------------------------------------------------------------------
Workers == 1..num_threads

LocInit == [i |-> 0, accum |-> gather_type_default, accum_is_set |-> FALSE,
            loaded_doubcon_neighs |-> <<>>, gather_dir |-> "NO_EDGES",
            scatter_dir |-> "NO_EDGES", do_scatter |-> FALSE, delta |-> 0]

\* nothing saved, posted or cleared yet
NoHist == [expect |-> gather_type_default, cleared |-> FALSE]

\* no gather_cache[vid] += delta in progress
NoPost == [vid |-> 0 - 1, delta |-> 0, has |-> FALSE, old |-> 0, pcw |-> "none"]

\* the state after main() has built the graph from a script and constructed
\* the engine
InitWith(scripts, threads, distances, programs) ==
    /\ g \in {BuildGraph(EmptyGraph, s) : s \in scripts}
    /\ num_threads \in threads
    /\ load_ahead_distance \in distances
    /\ program \in programs
    /\ active_list = {}
    /\ vertex_states = [v \in Vids |-> "FREE"]
    /\ in_use = [v \in Vids |-> FALSE]
    /\ num_idle_threads = 0
    /\ phase = "constructed"
    /\ pc = [w \in Workers |-> "unborn"]
    /\ job_vid = [w \in Workers |-> 0 - 1]
    /\ block = [w \in Workers |-> 0 - 1]
    /\ loc = [w \in Workers |-> LocInit]
    /\ SPM = SPMInit
    /\ counters = CountersInit
    /\ aborted = "none"
    /\ signals_left = MaxSignals
    /\ sig_log = [vid |-> 0 - 1, outcome |-> "none"]
    /\ call = NoCall
    /\ caching_enabled = FALSE
    /\ gather_cache = [v \in Vids |-> gather_type_default]
    /\ has_cache = [v \in Vids |-> FALSE]
    /\ posting = [w \in Workers |-> NoPost]
    /\ cache_hist = [v \in Vids |-> NoHist]
    /\ running_vertices = {}
    /\ deferred_activation_list = {}

\* the vertex object (reference into g.objs) at the far end of an edge
SrcRef(e) == g.vertices[g.edges[e].source_vid + 1]
TgtRef(e) == g.vertices[g.edges[e].target_vid + 1]

\* (edge, far endpoint object) of every in-edge / out-edge of a vertex object
InPairs(v) == [i \in 1..Len(v.in_edges) |-> <<v.in_edges[i], SrcRef(v.in_edges[i])>>]
OutPairs(v) == [i \in 1..Len(v.out_edges) |-> <<v.out_edges[i], TgtRef(v.out_edges[i])>>]

MinOf(a, b) == IF a < b THEN a ELSE b

\* a load-ahead loop that runs once even at distance 0
FirstN_at_least_one(s, n) == SubSeq(s, 1, MinOf(IF n <= 0 THEN 1 ELSE n, Len(s)))

\* the first n elements of a sequence, none when n <= 0
FirstN(s, n) == IF n <= 0 THEN <<>> ELSE SubSeq(s, 1, MinOf(n, Len(s)))

\* is_same<edge_data_type, graphlab::empty> for which = "edge" and
\* is_same<vertex_data_type, graphlab::empty> for which = "vertex":
\* pagerank.cpp runs on Graph<double, graphlab::empty>, SSSP.cpp on
\* Graph<long int, long int>, the re-signalling program on
\* Graph<graphlab::empty, graphlab::empty>
data_type_is_empty(which) ==
    IF which = "edge" THEN program \in RankPrograms \cup {"RESIGNAL"}
    ELSE program = "RESIGNAL"

\* the engine's load of one edge and its far endpoint: load_edata, then
\* load_vdata, each unless its data type is empty
LoadPair(st, p) ==
    LET st1 == IF data_type_is_empty("edge") THEN st
               ELSE load_edata(st, p[1], g.edges[p[1]].edata).st
    IN IF data_type_is_empty("vertex") THEN st1 ELSE load_vdata(st1, p[2]).st

\* the engine's eviction of one edge and its far endpoint: remove_edata, then remove_vdata
RemovePair(st, p) == remove_vdata(remove_edata(st, p[1]).st, p[2]).st

RECURSIVE LoadPairs(_, _)
LoadPairs(st, ps) ==
    IF ps = <<>> THEN st ELSE LoadPairs(LoadPair(st, Head(ps)), Tail(ps))

RECURSIVE RemovePairs(_, _)
RemovePairs(st, ps) ==
    IF ps = <<>> THEN st ELSE RemovePairs(RemovePair(st, Head(ps)), Tail(ps))

RECURSIVE RemoveVertices(_, _)
RemoveVertices(st, refs) ==
    IF refs = <<>> THEN st ELSE RemoveVertices(remove_vdata(st, Head(refs)).st, Tail(refs))

\* async_engine::check_spm_hit for edge e and the vertex object ref
check_spm_hit(st, p) ==
    LET c1 == IF data_type_is_empty("edge") THEN st.counters
              ELSE IF read_edata_ret(st, p[1])
              THEN [st.counters EXCEPT !.spm_hits = @ + 1]
              ELSE [st.counters EXCEPT !.spm_misses = @ + 1]
        c2 == IF data_type_is_empty("vertex") THEN c1
              ELSE IF read_vdata_ret(st, p[2])
              THEN [c1 EXCEPT !.spm_hits = @ + 1]
              ELSE [c1 EXCEPT !.spm_misses = @ + 1]
    IN [st EXCEPT !.counters = c2]

\* the SPM, main memory and counters as the SPM calls see them
CurSt == [SPM |-> SPM, objs |-> g.objs, counters |-> counters]

\* what an SPM call sequence leaves behind
SetSt(st) ==
    /\ SPM' = st.SPM
    /\ counters' = st.counters
    /\ g' = [g EXCEPT !.objs = st.objs]

\* the order in which exclusive_access_possible tests the in_use flags
AccessOrder(vid) ==
    LET v == Vertex(vid)
    IN <<v.vid>> \o InNeighIds(v) \o OutNeighIds(v)

NoBlock == 0 - 2

\* an access test that never refuses
exclusive_access_always(vid) == NoBlock

\* an access test that leaves out the sources of the in-edges
exclusive_access_skips_in_edges(vid) ==
    LET v == Vertex(vid)
        s == <<v.vid>> \o OutNeighIds(v)
        busy == {i \in 1..Len(s) : in_use[s[i]]}
    IN IF busy = {} THEN NoBlock ELSE s[Min(busy)]

\* exclusive_access_possible: NoBlock when it returns true, else the vertex
\* it returns in block
exclusive_access_possible(vid) ==
    LET s == AccessOrder(vid)
        busy == {i \in 1..Len(s) : in_use[s[i]]}
    IN IF busy = {} THEN NoBlock ELSE s[Min(busy)]

\* an acquisition that marks the vertex alone
AcquiredBy_self_only(vid) == {vid}

\* the in_use entries get_exclusive_access sets
AcquiredBy(vid) ==
    {vid} \cup Range(InNeighIds(Vertex(vid))) \cup Range(OutNeighIds(Vertex(vid)))

\* a release that frees and notifies the executed vertex only
ReleasedBy_self_only(vid) == {vid}

\* the in_use entries release_exclusive_access clears, and whose condition
\* variables it notifies
ReleasedBy(vid) ==
    {vid} \cup Range(InNeighIds(Vertex(vid))) \cup Range(OutNeighIds(Vertex(vid)))

\* a release that leaves the vertex state as it is
ReleasedState_kept(vid) == vertex_states[vid]

\* the vertex state release_exclusive_access leaves for vid
ReleasedState(vid) == "FREE"

\* an erase that leaves the set as it is
erase_nothing(S, x) == S

\* std::set::erase: active_list.erase(ret_vid) in get_next_job
erase(S, x) == S \ {x}

\* a get_next_job that returns false as soon as it finds active_list empty
get_next_job_never_waits(idle) == IF active_list = {} THEN "fail" ELSE "job"

\* get_next_job after num_idle_threads++ or after a wake-up: wait on
\* cv_no_jobs, return false, or take a job
get_next_job_branch(idle) ==
    IF active_list = {} /\ idle < num_threads THEN "wait"
    ELSE IF active_list = {} THEN "fail"
    ELSE "job"

\* the waiters that get_next_job's notify_all wakes when it returns false
notified_on_fail == {x \in Workers : pc[x] = "wait_no_jobs"}

\* an internal_signal that does not look vid up in active_list
internal_signal_no_lookup(vid) ==
    IF vertex_states[vid] = "FREE" THEN "inserted"
    ELSE IF vertex_states[vid] = "SCHEDULED" THEN "skipped"
    ELSE "threw"

\* an internal_signal that inserts whatever the state of the vertex
internal_signal_any_state(vid) ==
    IF vid \in active_list THEN "already_active" ELSE "inserted"

\* the branch internal_signal takes for vid
internal_signal_branch(vid) ==
    IF vid \in active_list THEN "already_active"
    ELSE IF vertex_states[vid] = "FREE" THEN "inserted"
    ELSE IF vertex_states[vid] = "SCHEDULED" THEN "skipped"
    ELSE "threw"

\* the vids signal_all inserts: every index of the vertex table
signal_all_inserts == 0..(NumVertices(g) - 1)

\* ------------------------------------------------------------------------
\* Actions
\* ------------------------------------------------------------------------
Running == aborted = "none"

\* waiters on cv_no_jobs
NoJobWaiters == {x \in Workers : pc[x] = "wait_no_jobs"}

\* signal_all(), called by the driver before start()
SignalAll ==
    /\ Running
    /\ phase = "constructed"
    /\ phase' = "signalled"
    /\ active_list' = active_list \cup signal_all_inserts
    /\ UNCHANGED <<g, num_threads, load_ahead_distance, program, vertex_states,
                   in_use, num_idle_threads, pc, job_vid, block, loc, SPM,
                   counters, aborted, signals_left, sig_log>>
    /\ UNCHANGED call
    /\ UNCHANGED cache_vars
    /\ UNCHANGED deferred_vars

\* start(): the worker threads are created
Start ==
    /\ Running
    /\ phase \in {"constructed", "signalled"}
    /\ phase' = "started"
    /\ pc' = [w \in Workers |-> "get_next_job"]
    /\ UNCHANGED <<g, num_threads, load_ahead_distance, program, active_list,
                   vertex_states, in_use, num_idle_threads, job_vid, block, loc,
                   SPM, counters, aborted, signals_left, sig_log>>
    /\ UNCHANGED call
    /\ UNCHANGED cache_vars
    /\ UNCHANGED deferred_vars

\* start(): every thread has been joined
StartReturns ==
    /\ Running
    /\ phase = "started"
    /\ \A w \in Workers : pc[w] = "done"
    /\ phase' = "returned"
    /\ UNCHANGED <<g, num_threads, load_ahead_distance, program, active_list,
                   vertex_states, in_use, num_idle_threads, pc, job_vid, block,
                   loc, SPM, counters, aborted, signals_left, sig_log>>
    /\ UNCHANGED call
    /\ UNCHANGED cache_vars
    /\ UNCHANGED deferred_vars

\* the part of get_next_job after the wait loop, with idle the value of
\* num_idle_threads at that point
GetNextJobTail(w, idle) ==
    LET br == get_next_job_branch(idle)
    IN \/ /\ br = "wait"
          /\ pc' = [pc EXCEPT ![w] = "wait_no_jobs"]
          /\ num_idle_threads' = idle
          /\ UNCHANGED <<active_list, vertex_states, job_vid>>
       \/ /\ br = "fail"
          /\ pc' = [x \in Workers |->
                      IF x = w THEN "done"
                      ELSE IF x \in notified_on_fail THEN "woken_no_jobs"
                      ELSE pc[x]]
          /\ num_idle_threads' = idle
          /\ UNCHANGED <<active_list, vertex_states, job_vid>>
       \/ /\ br = "job"
          /\ \E ret_vid \in active_list :
                /\ active_list' = erase(active_list, ret_vid)
                /\ vertex_states' = [vertex_states EXCEPT ![ret_vid] = "SCHEDULED"]
                /\ job_vid' = [job_vid EXCEPT ![w] = ret_vid]
          /\ num_idle_threads' = idle - 1
          /\ pc' = [pc EXCEPT ![w] = "get_exclusive_access"]

\* get_next_job from its entry up to the wait, the failure or the job
GetNextJob(w) ==
    /\ Running
    /\ pc[w] = "get_next_job"
    /\ GetNextJobTail(w, num_idle_threads + 1)
    /\ UNCHANGED <<g, num_threads, load_ahead_distance, program, in_use, phase,
                   block, loc, SPM, counters, aborted, signals_left, sig_log>>
    /\ UNCHANGED call
    /\ UNCHANGED cache_vars
    /\ UNCHANGED deferred_vars

\* get_next_job resumed by a notification of cv_no_jobs
WakeNoJobs(w) ==
    /\ Running
    /\ pc[w] = "woken_no_jobs"
    /\ GetNextJobTail(w, num_idle_threads)
    /\ UNCHANGED <<g, num_threads, load_ahead_distance, program, in_use, phase,
                   block, loc, SPM, counters, aborted, signals_left, sig_log>>
    /\ UNCHANGED call
    /\ UNCHANGED cache_vars
    /\ UNCHANGED deferred_vars

\* get_exclusive_access, on entry and after each wake-up: acquire the
\* neighbourhood or wait on the blocking vertex's condition variable.  For a
\* placeholder vertex v.id() is -1 and in_use[-1] is an out-of-bounds read:
\* the process dies, the read yields false and the vertex is acquired, or
\* the read yields true and the thread waits on cv_exclusive_access[-1],
\* which nobody notifies.
GetExclusiveAccess(w) ==
    /\ Running
    /\ pc[w] = "get_exclusive_access"
    /\ LET vid == job_vid[w]
       IN IF IsPlaceholder(vid)
          THEN \/ /\ aborted' = "out_of_bounds"
                  /\ UNCHANGED <<in_use, vertex_states, pc, block>>
               \/ /\ in_use' = [in_use EXCEPT ![vid] = TRUE]
                  /\ vertex_states' = [vertex_states EXCEPT ![vid] = "RUNNING"]
                  /\ pc' = [pc EXCEPT ![w] = "preload"]
                  /\ block' = [block EXCEPT ![w] = 0 - 1]
                  /\ UNCHANGED aborted
               \/ /\ block' = [block EXCEPT ![w] = PLACEHOLDER_ID]
                  /\ pc' = [pc EXCEPT ![w] = "wait_exclusive_access"]
                  /\ UNCHANGED <<aborted, in_use, vertex_states>>
          ELSE LET b == exclusive_access_possible(vid)
               IN IF b = NoBlock
                  THEN /\ in_use' = [x \in Vids |-> IF x \in AcquiredBy(vid) THEN TRUE
                                                   ELSE in_use[x]]
                       /\ vertex_states' = [vertex_states EXCEPT ![vid] = "RUNNING"]
                       /\ pc' = [pc EXCEPT ![w] = "preload"]
                       /\ block' = [block EXCEPT ![w] = 0 - 1]
                       /\ UNCHANGED aborted
                  ELSE /\ block' = [block EXCEPT ![w] = b]
                       /\ pc' = [pc EXCEPT ![w] = "wait_exclusive_access"]
                       /\ UNCHANGED <<aborted, in_use, vertex_states>>
    /\ UNCHANGED <<g, num_threads, load_ahead_distance, program, active_list,
                   num_idle_threads, phase, job_vid, loc, SPM, counters,
                   signals_left, sig_log>>
    /\ UNCHANGED call
    /\ UNCHANGED cache_vars
    /\ UNCHANGED deferred_vars

\* release_exclusive_access, and the return to the head of thread_start's loop
ReleaseExclusiveAccess(w) ==
    /\ Running
    /\ pc[w] = "release"
    /\ LET vid == job_vid[w]
           rel == ReleasedBy(vid)
       IN /\ vertex_states' = [vertex_states EXCEPT ![vid] = ReleasedState(vid)]
          /\ in_use' = [x \in Vids |-> IF x \in rel THEN FALSE ELSE in_use[x]]
          /\ pc' = [x \in Workers |->
                      IF x = w THEN "get_next_job"
                      ELSE IF pc[x] = "wait_exclusive_access" /\ block[x] \in rel
                           THEN "get_exclusive_access"
                      ELSE pc[x]]
    /\ job_vid' = [job_vid EXCEPT ![w] = 0 - 1]
    /\ loc' = [loc EXCEPT ![w] = LocInit]
    /\ UNCHANGED <<g, num_threads, load_ahead_distance, program, active_list,
                   num_idle_threads, phase, block, SPM, counters,
                   aborted, signals_left, sig_log>>
    /\ UNCHANGED call
    /\ UNCHANGED cache_vars
    /\ UNCHANGED deferred_vars

\* thread_start's vertex-program-level load ahead (lines 371-390)
Preload(w) ==
    /\ Running
    /\ pc[w] = "preload"
    /\ LET v == Vertex(job_vid[w])
           L == load_ahead_distance
           st1 == LoadPairs(CurSt, FirstN(InPairs(v), L))
           st2 == LoadPairs(st1, FirstN(OutPairs(v), L - Len(v.in_edges)))
       IN SetSt(st2)
    /\ pc' = [pc EXCEPT ![w] = "execute_vprog"]
    /\ UNCHANGED <<num_threads, load_ahead_distance, program, active_list,
                   vertex_states, in_use, num_idle_threads, phase, job_vid,
                   block, loc, aborted, signals_left, sig_log>>
    /\ UNCHANGED call
    /\ UNCHANGED cache_vars
    /\ UNCHANGED deferred_vars

\* execute_vprog up to the choice of the gather direction (lines 432-453):
\* with a cached accumulator the whole gather phase is skipped
ExecuteBegin(w) ==
    /\ Running
    /\ pc[w] = "execute_vprog"
    /\ IF caching_enabled /\ has_cache[job_vid[w]]
       THEN /\ loc' = [loc EXCEPT ![w] = [LocInit EXCEPT !.accum = gather_cache[job_vid[w]],
                                                          !.accum_is_set = TRUE]]
            /\ pc' = [pc EXCEPT ![w] = "apply"]
       ELSE /\ loc' = [loc EXCEPT ![w] = [LocInit EXCEPT !.gather_dir = gather_edges(program)]]
            /\ pc' = [pc EXCEPT ![w] = "gather_in"]
    /\ UNCHANGED <<g, num_threads, load_ahead_distance, program, active_list,
                   vertex_states, in_use, num_idle_threads, phase, job_vid,
                   block, SPM, counters, aborted, signals_left, sig_log>>
    /\ UNCHANGED call
    /\ UNCHANGED cache_vars
    /\ UNCHANGED deferred_vars

\* a gather loop that assigns every result instead of combining it
Accumulate_last_only(l, e) == gather(program, g.objs, e)

\* accum after the gather on edge e
Accumulate(l, e) ==
    IF l.accum_is_set THEN plus_eq(program, l.accum, gather(program, g.objs, e))
    ELSE gather(program, g.objs, e)

\* one iteration of the gather loop over the in-edges, the end of that loop,
\* or the eviction that replaces it (lines 462-525)
GatherIn(w) ==
    /\ Running
    /\ pc[w] = "gather_in"
    /\ LET v == Vertex(job_vid[w])
           l == loc[w]
           L == load_ahead_distance
           i == l.i
           nin == Len(v.in_edges)
           nout == Len(v.out_edges)
       IN IF l.gather_dir \in {"IN_EDGES", "ALL_EDGES"}
          THEN IF i < nin
               THEN LET e == v.in_edges[i + 1]
                        st1 == IF i + L < nin
                               THEN LoadPair(CurSt, InPairs(v)[i + L + 1])
                               ELSE IF i + L - nin < nout
                               THEN LoadPair(CurSt, OutPairs(v)[i + L - nin + 1])
                               ELSE CurSt
                        st2 == check_spm_hit(st1, InPairs(v)[i + 1])
                        st3 == remove_edata(st2, e).st
                        st4 == IF ~g.edges[e].has_opposite
                               THEN remove_vdata(st3, SrcRef(e)).st
                               ELSE st3
                        dc == IF ~g.edges[e].has_opposite
                              THEN l.loaded_doubcon_neighs
                              ELSE Append(l.loaded_doubcon_neighs, SrcRef(e))
                    IN /\ SetSt(st4)
                       /\ loc' = [loc EXCEPT ![w] =
                                    [l EXCEPT !.i = i + 1,
                                              !.accum = Accumulate(l, e),
                                              !.accum_is_set = TRUE,
                                              !.loaded_doubcon_neighs = dc]]
                       /\ UNCHANGED pc
               ELSE /\ pc' = [pc EXCEPT ![w] = "gather_out"]
                    /\ loc' = [loc EXCEPT ![w].i = 0]
                    /\ UNCHANGED <<g, SPM, counters>>
          ELSE /\ SetSt(RemovePairs(CurSt, FirstN(InPairs(v), L)))
               /\ pc' = [pc EXCEPT ![w] = "gather_out"]
               /\ loc' = [loc EXCEPT ![w].i = 0]
    /\ UNCHANGED <<num_threads, load_ahead_distance, program, active_list,
                   vertex_states, in_use, num_idle_threads, phase, job_vid,
                   block, aborted, signals_left, sig_log>>
    /\ UNCHANGED call
    /\ UNCHANGED cache_vars
    /\ UNCHANGED deferred_vars

\* one iteration of the gather loop over the out-edges, or the end of the
\* gather phase (lines 529-572)
GatherOut(w) ==
    /\ Running
    /\ pc[w] = "gather_out"
    /\ LET v == Vertex(job_vid[w])
           l == loc[w]
           L == load_ahead_distance
           i == l.i
           nout == Len(v.out_edges)
       IN IF l.gather_dir \in {"OUT_EDGES", "ALL_EDGES"} /\ i < nout
          THEN LET e == v.out_edges[i + 1]
                   st1 == IF i + L < nout
                          THEN LoadPair(CurSt, OutPairs(v)[i + L + 1])
                          ELSE CurSt
                   st2 == check_spm_hit(st1, OutPairs(v)[i + 1])
                   st3 == IF i >= L THEN RemovePair(st2, OutPairs(v)[i + 1]) ELSE st2
               IN /\ SetSt(st3)
                  /\ loc' = [loc EXCEPT ![w] =
                               [l EXCEPT !.i = i + 1,
                                         !.accum = Accumulate(l, e),
                                         !.accum_is_set = TRUE]]
                  /\ UNCHANGED pc
                  /\ UNCHANGED <<gather_cache, has_cache, cache_hist>>
          ELSE /\ pc' = [pc EXCEPT ![w] = "apply"]
               /\ loc' = [loc EXCEPT ![w].i = 0]
               /\ UNCHANGED <<g, SPM, counters>>
               /\ IF caching_enabled /\ l.accum_is_set
                  THEN /\ gather_cache' = [gather_cache EXCEPT ![job_vid[w]] = l.accum]
                       /\ has_cache' = [has_cache EXCEPT ![job_vid[w]] = TRUE]
                       /\ cache_hist' = [cache_hist EXCEPT ![job_vid[w]] =
                                           [expect |-> l.accum, cleared |-> FALSE]]
                  ELSE UNCHANGED <<gather_cache, has_cache, cache_hist>>
    /\ UNCHANGED <<num_threads, load_ahead_distance, program, active_list,
                   vertex_states, in_use, num_idle_threads, phase, job_vid,
                   block, aborted, signals_left, sig_log>>
    /\ UNCHANGED <<call, caching_enabled, posting>>
    /\ UNCHANGED deferred_vars

\* the number of edge visits (SPM hits and misses) a run of a rank program
\* is followed for
MaxVisits == 24

\* the apply phase and the choice of the scatter direction (lines 577-582)
Apply(w) ==
    /\ Running
    /\ pc[w] = "apply"
    /\ LET ref == g.vertices[job_vid[w] + 1]
           data == g.objs[ref].vdata
           total == loc[w].accum
           ds == apply_do_scatter(program, data, total)
       IN /\ program \in RankPrograms => counters.spm_hits + counters.spm_misses < MaxVisits
          /\ g' = [g EXCEPT !.objs[ref].vdata = apply_data(program, data, total)]
          /\ loc' = [loc EXCEPT ![w].do_scatter = ds,
                                ![w].delta = apply_delta(program, data, total),
                                ![w].scatter_dir = scatter_edges(program, ds),
                                ![w].i = 0]
    /\ pc' = [pc EXCEPT ![w] = "scatter_out"]
    /\ UNCHANGED <<num_threads, load_ahead_distance, program, active_list,
                   vertex_states, in_use, num_idle_threads, phase, job_vid,
                   block, SPM, counters, aborted, signals_left, sig_log>>
    /\ UNCHANGED call
    /\ UNCHANGED cache_vars
    /\ UNCHANGED deferred_vars

\* internal_signal(vertex) called by worker w from scatter, where pcw is the
\* position w continues at: insert and notify one waiter, skip, or throw
\* (an exception leaving a thread terminates the process)
internal_signal(w, vid, pcw) ==
    LET br == internal_signal_branch(vid)
    IN /\ active_list' = IF br = "inserted" THEN active_list \cup {vid} ELSE active_list
       /\ \E wake \in IF br = "inserted" /\ NoJobWaiters # {} THEN NoJobWaiters ELSE {0} :
             pc' = [x \in Workers |->
                      IF x = wake THEN "woken_no_jobs"
                      ELSE IF x = w THEN pcw
                      ELSE pc[x]]
       /\ aborted' = IF br = "threw" THEN "running_vertex_signalled" ELSE aborted
       /\ sig_log' = [vid |-> vid, outcome |-> br]

\* internal_post_delta, the value gather_cache[vid] is left with, from the
\* has_cache[vid] and gather_cache[vid] that the call read
internal_post_delta(has, old, delta) == IF has THEN old + delta ELSE old

\* internal_clear_gather_cache, the has_cache it leaves behind: the statement
\* under the test is the comparison has_cache[vid] == false, which stores
\* nothing
internal_clear_gather_cache(vid) ==
    IF caching_enabled /\ has_cache[vid] THEN has_cache ELSE has_cache

\* the signal that ends pagerank_program::scatter: fabs(delta) > 1E-3
SignalIfMoved(w, tgt, pcw) ==
    IF loc[w].delta # 0
    THEN internal_signal(w, tgt, pcw)
    ELSE /\ pc' = [pc EXCEPT ![w] = pcw]
         /\ UNCHANGED <<active_list, aborted, sig_log>>

\* scatter of the program on an edge whose target has id tgt: SSSP and the
\* re-signalling program signal edge.target(); the default program signals the far endpoint far or nothing;
\* pagerank calls context.post_delta(edge.target(), delta / num_out_edges),
\* which enters internal_post_delta and reads has_cache and gather_cache
Scatter(w, tgt, far, pcw) ==
    IF program \in {"SSSP", "RESIGNAL"}
    THEN /\ internal_signal(w, tgt, pcw)
         /\ UNCHANGED <<signals_left, call, cache_vars>>
    ELSE IF program = "PAGERANK"
    THEN LET d == loc[w].delta \div Len(Vertex(job_vid[w]).out_edges)
             has == caching_enabled /\ has_cache[tgt]
         IN /\ posting' = [posting EXCEPT ![w] =
                             [vid |-> tgt, delta |-> d, has |-> has,
                              old |-> IF has THEN gather_cache[tgt] ELSE 0, pcw |-> pcw]]
            /\ pc' = [pc EXCEPT ![w] = "post_delta"]
            /\ cache_hist' = IF has THEN [cache_hist EXCEPT ![tgt].expect = @ + d] ELSE cache_hist
            /\ call' = [op |-> "post_delta", args |-> <<tgt, d>>, ret |-> FALSE, n |-> 0]
            /\ UNCHANGED <<active_list, aborted, sig_log, signals_left,
                           caching_enabled, gather_cache, has_cache>>
    ELSE IF program = "CLEARING"
    THEN /\ has_cache' = internal_clear_gather_cache(tgt)
         /\ call' = [op |-> "clear_gather_cache", args |-> <<tgt>>, ret |-> FALSE, n |-> 0]
         /\ cache_hist' = IF caching_enabled
                          THEN [cache_hist EXCEPT ![tgt].cleared = TRUE]
                          ELSE cache_hist
         /\ SignalIfMoved(w, tgt, pcw)
         /\ UNCHANGED <<signals_left, caching_enabled, gather_cache, posting>>
    ELSE /\ \/ /\ signals_left > 0
               /\ signals_left' = signals_left - 1
               /\ internal_signal(w, far, pcw)
            \/ /\ pc' = [pc EXCEPT ![w] = pcw]
               /\ UNCHANGED <<active_list, aborted, sig_log, signals_left>>
         /\ UNCHANGED <<call, cache_vars>>

\* the store of gather_cache[vid] += delta (line 299) and the rest of
\* pagerank_program::scatter
PostDelta(w) ==
    /\ Running
    /\ pc[w] = "post_delta"
    /\ LET p == posting[w]
       IN /\ gather_cache' = IF p.has
                             THEN [gather_cache EXCEPT ![p.vid] = internal_post_delta(p.has, p.old, p.delta)]
                             ELSE gather_cache
          /\ SignalIfMoved(w, p.vid, p.pcw)
    /\ posting' = [posting EXCEPT ![w] = NoPost]
    /\ UNCHANGED <<g, num_threads, load_ahead_distance, program, vertex_states,
                   in_use, num_idle_threads, phase, job_vid, block, loc, SPM,
                   counters, signals_left, call, caching_enabled, has_cache,
                   cache_hist>>
    /\ UNCHANGED deferred_vars

\* one iteration of the scatter loop over the out-edges, the end of that
\* loop, or the eviction that replaces it (lines 584-622)
ScatterOut(w) ==
    /\ Running
    /\ pc[w] = "scatter_out"
    /\ LET v == Vertex(job_vid[w])
           l == loc[w]
           L == load_ahead_distance
           i == l.i
           nin == Len(v.in_edges)
           nout == Len(v.out_edges)
       IN IF l.scatter_dir \in {"OUT_EDGES", "ALL_EDGES"}
          THEN IF i < nout
               THEN LET e == v.out_edges[i + 1]
                        st1 == IF i + L < nout
                               THEN LoadPair(CurSt, OutPairs(v)[i + L + 1])
                               ELSE IF l.scatter_dir = "ALL_EDGES" /\ i + L - nout < nin
                               THEN LoadPair(CurSt, InPairs(v)[i + L - nout + 1])
                               ELSE CurSt
                        st2 == check_spm_hit(st1, OutPairs(v)[i + 1])
                        st3 == RemovePair(st2, OutPairs(v)[i + 1])
                    IN /\ SetSt(st3)
                       /\ loc' = [loc EXCEPT ![w].i = i + 1]
                       /\ Scatter(w, TargetId(g, e), TargetId(g, e), "scatter_out")
               ELSE /\ pc' = [pc EXCEPT ![w] = "scatter_in"]
                    /\ loc' = [loc EXCEPT ![w].i = 0]
                    /\ UNCHANGED <<g, SPM, counters, active_list, aborted,
                                   sig_log, signals_left, call, cache_vars>>
          ELSE /\ SetSt(RemovePairs(CurSt, FirstN(OutPairs(v), L)))
               /\ pc' = [pc EXCEPT ![w] = "scatter_in"]
               /\ loc' = [loc EXCEPT ![w].i = 0]
               /\ UNCHANGED <<active_list, aborted, sig_log, signals_left, call,
                              cache_vars>>
    /\ UNCHANGED <<num_threads, load_ahead_distance, program, vertex_states,
                   in_use, num_idle_threads, phase, job_vid, block>>
    /\ UNCHANGED deferred_vars

\* one iteration of the scatter loop over the in-edges, or the end of that
\* loop (lines 627-649)
ScatterIn(w) ==
    /\ Running
    /\ pc[w] = "scatter_in"
    /\ LET v == Vertex(job_vid[w])
           l == loc[w]
           L == load_ahead_distance
           i == l.i
           nin == Len(v.in_edges)
       IN IF l.scatter_dir \in {"IN_EDGES", "ALL_EDGES"} /\ i < nin
          THEN LET e == v.in_edges[i + 1]
                   st1 == IF i + L < nin
                          THEN LoadPair(CurSt, InPairs(v)[i + L + 1])
                          ELSE CurSt
                   st2 == check_spm_hit(st1, InPairs(v)[i + 1])
                   st3 == RemovePair(st2, InPairs(v)[i + 1])
               IN /\ SetSt(st3)
                  /\ loc' = [loc EXCEPT ![w].i = i + 1]
                  /\ Scatter(w, TargetId(g, e), SourceId(g, e), "scatter_in")
          ELSE /\ pc' = [pc EXCEPT ![w] = "evict_doubcon"]
               /\ loc' = [loc EXCEPT ![w].i = 0]
               /\ UNCHANGED <<g, SPM, counters, active_list, aborted, sig_log,
                              signals_left, call, cache_vars>>
    /\ UNCHANGED <<num_threads, load_ahead_distance, program, vertex_states,
                   in_use, num_idle_threads, phase, job_vid, block>>
    /\ UNCHANGED deferred_vars

\* the eviction of the doubly connected neighbours that ends execute_vprog
\* (lines 652-654)
EvictDoubcon(w) ==
    /\ Running
    /\ pc[w] = "evict_doubcon"
    /\ SetSt(RemoveVertices(CurSt, loc[w].loaded_doubcon_neighs))
    /\ pc' = [pc EXCEPT ![w] = "release"]
    /\ UNCHANGED <<num_threads, load_ahead_distance, program, active_list,
                   vertex_states, in_use, num_idle_threads, phase, job_vid,
                   block, loc, aborted, signals_left, sig_log>>
    /\ UNCHANGED call
    /\ UNCHANGED cache_vars
    /\ UNCHANGED deferred_vars

WorkerStep(w) ==
    \/ GetNextJob(w)
    \/ WakeNoJobs(w)
    \/ GetExclusiveAccess(w)
    \/ Preload(w)
    \/ ExecuteBegin(w)
    \/ GatherIn(w)
    \/ GatherOut(w)
    \/ Apply(w)
    \/ ScatterOut(w)
    \/ ScatterIn(w)
    \/ PostDelta(w)
    \/ EvictDoubcon(w)
    \/ ReleaseExclusiveAccess(w)

Next ==
    \/ SignalAll
    \/ Start
    \/ StartReturns
    \/ \E w \in Workers : WorkerStep(w)

\* runs of the default program on every graph, with and without placeholder
\* slots in the vertex table
Init == InitWith(DenseScripts \cup GapScripts, 1..MaxThreads, {0}, {"DEFAULT"})

Spec == Init /\ [][Next]_vars

\* a thread that is not blocked on a condition variable and has not left
\* thread_start can take a step: the enabling condition of WorkerStep(w)
WorkerEnabled(w) ==
    /\ w \in Workers
    /\ Running
    /\ pc[w] \notin {"unborn", "wait_no_jobs", "wait_exclusive_access", "done"}

\* the scheduling the code relies on: the driver calls start(), joins the
\* threads, and every thread that can take a step eventually does (weak
\* fairness of WorkerStep(w), with its enabling condition written out)
Fairness ==
    /\ WF_vars(Start)
    /\ WF_vars(StartReturns)
    /\ \A w \in 1..MaxThreads :
          []<>(~WorkerEnabled(w)) \/ []<><<WorkerStep(w)>>_vars

FairSpec == Init /\ [][Next]_vars /\ Fairness

\* the same runs on the graphs whose vertex table has no placeholder slot
InitDense == InitWith(DenseScripts, 1..MaxThreads, {0}, {"DEFAULT"})

FairSpecDense == InitDense /\ [][Next]_vars /\ Fairness

\* ------------------------------------------------------------------------
\* SSSP (sample_programs/SSSP.cpp): signal_all(); start() on the 4-vertex
\* chain
\* ------------------------------------------------------------------------
\* the state main() of SSSP.cpp is in after engine.signal_all(), for every
\* number of threads and look-ahead distance given on the command line
InitSSSP ==
    /\ g = BuildGraph(EmptyGraph, ChainScript)
    /\ num_threads \in 1..MaxThreads
    /\ load_ahead_distance \in 0..MaxLookAhead
    /\ program = "SSSP"
    /\ active_list = signal_all_inserts
    /\ vertex_states = [v \in Vids |-> "FREE"]
    /\ in_use = [v \in Vids |-> FALSE]
    /\ num_idle_threads = 0
    /\ phase = "signalled"
    /\ pc = [w \in Workers |-> "unborn"]
    /\ job_vid = [w \in Workers |-> 0 - 1]
    /\ block = [w \in Workers |-> 0 - 1]
    /\ loc = [w \in Workers |-> LocInit]
    /\ SPM = SPMInit
    /\ counters = CountersInit
    /\ aborted = "none"
    /\ signals_left = 0
    /\ sig_log = [vid |-> 0 - 1, outcome |-> "none"]
    /\ call = NoCall
    /\ caching_enabled = FALSE
    /\ gather_cache = [v \in Vids |-> gather_type_default]
    /\ has_cache = [v \in Vids |-> FALSE]
    /\ posting = [w \in Workers |-> NoPost]
    /\ cache_hist = [v \in Vids |-> NoHist]
    /\ running_vertices = {}
    /\ deferred_activation_list = {}

\* engine.start() and its threads
NextSSSP ==
    \/ Start
    \/ StartReturns
    \/ \E w \in Workers : WorkerStep(w)

SpecSSSP == InitSSSP /\ [][NextSSSP]_vars /\ Fairness

\* ------------------------------------------------------------------------
\* Properties
\* ------------------------------------------------------------------------
\* a worker is between the return of get_exclusive_access and the start of
\* release_exclusive_access
InCritical(w) ==
    pc[w] \in {"preload", "execute_vprog", "gather_in", "gather_out", "apply",
               "scatter_out", "scatter_in", "evict_doubcon", "release"}

\* a worker has been handed a job and has not yet released it
HoldsJob(w) == pc[w] \in {"get_exclusive_access", "wait_exclusive_access"} \/ InCritical(w)

RunningVids == {v \in Vids : vertex_states[v] = "RUNNING"}

\* C1: two workers are never at the same time inside the critical section
\* (after get_exclusive_access, before release_exclusive_access) for
\* different vertices whose closed neighbourhoods intersect, and the RUNNING
\* vertices are pairwise non-adjacent.
C1_NeighbourhoodExclusion ==
    /\ \A w1, w2 \in Workers :
          (w1 # w2 /\ InCritical(w1) /\ InCritical(w2) /\ job_vid[w1] # job_vid[w2])
             => Neigh(job_vid[w1]) \cap Neigh(job_vid[w2]) = {}
    /\ \A u, v \in RunningVids : u # v => v \notin Neigh(u)

\* C1 witness: one worker is inside the critical section while another one,
\* handed a vertex with an intersecting neighbourhood, waits for access
C1_Witness ==
    \E w1, w2 \in Workers :
        /\ InCritical(w1)
        /\ pc[w2] = "wait_exclusive_access"
        /\ job_vid[w1] # job_vid[w2]
        /\ Neigh(job_vid[w1]) \cap Neigh(job_vid[w2]) # {}

IsStar == g = BuildGraph(EmptyGraph, StarScript)
StarCentre == 0
StarLeaves == {1, 2}

\* C2 as claimed: on the star with at least two workers a leaf is not kept
\* out by another leaf, i.e. whenever one leaf is RUNNING and a worker has
\* been handed another leaf, that worker can get exclusive access (and so
\* both leaves are RUNNING together).
C2_LeavesMayOverlap ==
    (IsStar /\ num_threads >= 2) =>
        \A li, lj \in StarLeaves :
            (li # lj /\ vertex_states[li] = "RUNNING" /\ vertex_states[lj] = "SCHEDULED")
                => exclusive_access_possible(lj) = NoBlock

\* C2 amended: on the star no two vertices are RUNNING together, neither two
\* leaves (their closed neighbourhoods share the centre) nor the centre and
\* a leaf.
C2_LeavesExclusive ==
    IsStar => Cardinality(RunningVids) <= 1

\* C2 witness: a leaf is RUNNING and the worker handed the other leaf waits
\* on the centre's condition variable
C2_Witness ==
    /\ IsStar
    /\ \E li, lj \in StarLeaves, w \in Workers :
          /\ li # lj
          /\ vertex_states[li] = "RUNNING"
          /\ job_vid[w] = lj
          /\ pc[w] = "wait_exclusive_access"
          /\ block[w] = StarCentre

\* C3: no vid is held by two workers at once, and a vid is SCHEDULED or
\* RUNNING exactly when one worker holds it.
C3_SingleAssignment ==
    /\ \A w1, w2 \in Workers :
          (w1 # w2 /\ HoldsJob(w1) /\ HoldsJob(w2)) => job_vid[w1] # job_vid[w2]
    /\ \A v \in Vids :
          (vertex_states[v] # "FREE") <=> (\E w \in Workers : HoldsJob(w) /\ job_vid[w] = v)

\* C3 witness: a vertex was signalled while SCHEDULED (the signal was
\* skipped) and is still held by its worker while the signaller holds its own
C3_Witness ==
    /\ sig_log.outcome = "skipped"
    /\ \E w1, w2 \in Workers :
          w1 # w2 /\ HoldsJob(w1) /\ HoldsJob(w2) /\ job_vid[w2] = sig_log.vid

\* C4: when start() has returned, active_list is empty and every vertex is
\* FREE.
C4_ReturnedQuiescent ==
    phase = "returned" =>
        /\ active_list = {}
        /\ \A v \in Vids : vertex_states[v] = "FREE"

\* C4 witness: start() has returned from a run that executed vertex
\* programs on edges and delivered a signal
C4_Witness ==
    /\ phase = "returned"
    /\ counters.spm_hits > 0
    /\ sig_log.outcome = "inserted"

\* no worker is inside or about to enter a vertex program
NoVprogActivity ==
    \A w \in Workers : pc[w] \in {"get_next_job", "wait_no_jobs", "woken_no_jobs", "done"}

\* C5: under fair scheduling start() eventually returns (every worker has
\* returned false from get_next_job and left thread_start, none is left
\* blocked on a condition variable), and once the threads run with an empty
\* active set and no vertex program in progress, none is ever entered.
C5_Termination ==
    /\ <>(phase = "returned" /\ \A w \in Workers : pc[w] = "done")
    /\ [][(phase = "started" /\ active_list = {} /\ NoVprogActivity)
             => (active_list' = {} /\ NoVprogActivity')]_vars

\* vertex.data of every vertex, as main() writes it to the output file
DataOf == [v \in Vids |-> Vertex(v).vdata]

\* the shortest distances from vertex 0 on the chain
ChainDistances == [v \in 0..3 |-> LongOf(IF v = 0 THEN 0 ELSE IF v = 1 THEN 2 ELSE IF v = 2 THEN 5 ELSE 9)]

\* C6: on the chain, signal_all(); start() with the SSSP program returns,
\* and when it has returned vertex.data is {0:0, 1:2, 2:5, 3:9}, for every
\* number of workers, look-ahead distance and order of the jobs.
C6_SSSPChain ==
    /\ <>(phase = "returned")
    /\ [](phase = "returned" => DataOf = ChainDistances)
    /\ [](aborted = "none")

\* C6 witness: start() has returned from a run with two workers and a
\* look-ahead distance of at least one in which vertex 3 was given its
\* distance
C6_Witness ==
    /\ program = "SSSP"
    /\ phase = "returned"
    /\ num_threads >= 2
    /\ load_ahead_distance >= 1
    /\ Vertex(3).vdata = LongOf(9)

\* C7: internal_signal never finds the signalled vertex RUNNING: the branch
\* that throws is never taken.
C7_NoRunningSignalled ==
    /\ aborted # "running_vertex_signalled"
    /\ sig_log.outcome # "threw"

\* C7 witness: a scatter signalled the far endpoint while that vertex was
\* SCHEDULED to another worker
C7_Witness ==
    /\ sig_log.outcome = "skipped"
    /\ \E w \in Workers : pc[w] = "scatter_out" /\ sig_log.vid \in Neigh(job_vid[w])

\* the step is a call of internal_signal by the default program
SignalStep == signals_left' # signals_left

\* v is waiting to be executed: in active_list, or handed to a worker that
\* has not been granted access yet
Pending(v) ==
    \/ v \in active_list
    \/ /\ vertex_states[v] = "SCHEDULED"
       /\ \E w \in Workers :
             job_vid[w] = v /\ pc[w] \in {"get_exclusive_access", "wait_exclusive_access"}

\* the worker handed v has been granted access and is about to run v's
\* program (vertex-program-level load ahead, then execute_vprog)
Starting(v) == \E w \in Workers : job_vid[w] = v /\ pc[w] = "preload"

\* C8: a signal of a SCHEDULED vertex does not insert it and leaves it with
\* its worker, which has not started the gather; every signal that returns
\* leaves the vertex pending; a pending vertex stops being pending only by
\* having its program started, and eventually no vertex is pending.
C8_NoLostActivation ==
    /\ [][SignalStep =>
            /\ sig_log'.outcome # "threw"
            /\ \E v \in Vids : v = sig_log'.vid /\ Pending(v)'
            /\ (vertex_states[sig_log'.vid] = "SCHEDULED" =>
                   /\ active_list' = active_list
                   /\ sig_log'.outcome = "skipped")]_vars
    /\ [][\A v \in Vids : (Pending(v) /\ ~Pending(v)') => Starting(v)']_vars
    /\ <>[](\A v \in Vids : ~Pending(v))

\* C9: internal_signal of a vertex that is already in active_list takes no
\* action (active_list, vertex_states, in_use, num_idle_threads and the
\* waiters on cv_no_jobs are unchanged), and a vertex handed to a worker is
\* no longer in active_list, so it is handed out once.
C9_IdempotentSignal ==
    /\ [][(SignalStep /\ sig_log'.vid \in active_list) =>
            /\ sig_log'.outcome = "already_active"
            /\ active_list' = active_list
            /\ vertex_states' = vertex_states
            /\ in_use' = in_use
            /\ num_idle_threads' = num_idle_threads
            /\ NoJobWaiters' = NoJobWaiters]_vars
    /\ [][\A w \in Workers :
            (job_vid'[w] # job_vid[w] /\ job_vid'[w] >= 0) =>
                /\ job_vid'[w] \in active_list
                /\ job_vid'[w] \notin active_list'
                /\ \A x \in Workers : x # w => job_vid'[x] # job_vid'[w]]_vars

\* C9 witness: an already active vertex was signalled and is still in
\* active_list, FREE
C9_Witness ==
    /\ sig_log.outcome = "already_active"
    /\ sig_log.vid \in active_list
    /\ vertex_states[sig_log.vid] = "FREE"

\* C10 as claimed: a placeholder slot of the vertex table is never in
\* active_list and never handed to a worker.
C10_PlaceholderNeverExecuted ==
    \A i \in Vids :
        IsPlaceholder(i) =>
            /\ i \notin active_list
            /\ \A w \in Workers : ~(HoldsJob(w) /\ job_vid[w] = i)

\* ------------------------------------------------------------------------
\* Graph construction: a driver's main() calling add_vertex and add_edge
\* ------------------------------------------------------------------------
\* largest vertex id passed to add_vertex
MaxGraphVid == 2
\* cap on the vertex_type objects allocated by add_vertex calls
MaxObjs == 5
\* cap on the edge_type objects allocated by add_edge calls
MaxEdges == 3

\* vid is the index of a slot of the vertex table that holds a vertex made
\* by vertex_type(vid, data), not a placeholder
Bound(gr, vid) ==
    /\ vid >= 0
    /\ vid < Len(gr.vertices)
    /\ VertexOf(gr, vid).vid >= 0

\* the driver has an empty graph and has not constructed an engine
InitGraph ==
    /\ g = EmptyGraph
    /\ num_threads = 1
    /\ load_ahead_distance = 0
    /\ program = "DEFAULT"
    /\ active_list = {}
    /\ vertex_states = [v \in Vids |-> "FREE"]
    /\ in_use = [v \in Vids |-> FALSE]
    /\ num_idle_threads = 0
    /\ phase = "building"
    /\ pc = [w \in Workers |-> "unborn"]
    /\ job_vid = [w \in Workers |-> 0 - 1]
    /\ block = [w \in Workers |-> 0 - 1]
    /\ loc = [w \in Workers |-> LocInit]
    /\ SPM = SPMInit
    /\ counters = CountersInit
    /\ aborted = "none"
    /\ signals_left = 0
    /\ sig_log = [vid |-> 0 - 1, outcome |-> "none"]
    /\ call = NoCall
    /\ caching_enabled = FALSE
    /\ gather_cache = [v \in Vids |-> gather_type_default]
    /\ has_cache = [v \in Vids |-> FALSE]
    /\ posting = [w \in Workers |-> NoPost]
    /\ cache_hist = [v \in Vids |-> NoHist]
    /\ running_vertices = {}
    /\ deferred_activation_list = {}

\* g.add_vertex(vid, data)
AddVertex ==
    /\ Running
    /\ phase = "building"
    /\ Len(g.objs) < MaxObjs
    /\ \E vid \in (0 - 1)..MaxGraphVid :
          /\ g' = add_vertex(g, vid, 0)
          /\ call' = [op |-> "add_vertex", args |-> <<vid>>, ret |-> add_vertex_ret(g, vid), n |-> 0]
    /\ UNCHANGED <<num_threads, load_ahead_distance, program, active_list,
                   vertex_states, in_use, num_idle_threads, phase, pc, job_vid,
                   block, loc, SPM, counters, aborted, signals_left, sig_log>>
    /\ UNCHANGED cache_vars
    /\ UNCHANGED deferred_vars

\* g.add_edge(source, target, data).  When the guard lets a target outside
\* the vertex table through, vertices[target] is an out-of-bounds read of a
\* pointer that is then dereferenced: the process dies, or it goes on with
\* memory outside the graph overwritten.
AddEdge ==
    /\ Running
    /\ phase = "building"
    /\ Len(g.edges) < MaxEdges
    /\ \E source, target \in (0 - 1)..(MaxGraphVid + 1) :
          IF add_edge_rejects(g, source, target)
          THEN /\ call' = [op |-> "add_edge", args |-> <<source, target>>, ret |-> FALSE, n |-> 0]
               /\ UNCHANGED <<g, aborted>>
          ELSE IF target < 0 \/ target >= Len(g.vertices)
          THEN \/ /\ aborted' = "out_of_bounds"
                  /\ call' = [op |-> "add_edge", args |-> <<source, target>>, ret |-> FALSE, n |-> 0]
                  /\ UNCHANGED g
               \/ /\ aborted' = "memory_corrupted"
                  /\ call' = [op |-> "add_edge", args |-> <<source, target>>, ret |-> TRUE, n |-> 0]
                  /\ UNCHANGED g
          ELSE /\ g' = add_edge(g, source, target, 1)
               /\ call' = [op |-> "add_edge", args |-> <<source, target>>, ret |-> TRUE, n |-> 0]
               /\ UNCHANGED aborted
    /\ UNCHANGED <<num_threads, load_ahead_distance, program, active_list,
                   vertex_states, in_use, num_idle_threads, phase, pc, job_vid,
                   block, loc, SPM, counters, signals_left, sig_log>>
    /\ UNCHANGED cache_vars
    /\ UNCHANGED deferred_vars

NextGraph ==
    \/ AddVertex
    \/ AddEdge

SpecGraph == InitGraph /\ [][NextGraph]_vars

\* C11 as claimed: add_vertex(id) returns false and changes nothing when
\* id < 0 or a vertex is bound at id (id = 0 included); otherwise it returns
\* true and binds a vertex without edges at index id.
C11_AddVertexContract ==
    [][(call'.op = "add_vertex" /\ <<g, call>>' # <<g, call>>) =>
         LET vid == call'.args[1]
         IN IF vid < 0 \/ Bound(g, vid)
            THEN ~call'.ret /\ g' = g
            ELSE /\ call'.ret
                 /\ Bound(g', vid)
                 /\ VertexOf(g', vid) = NewVertex(vid, 0)]_vars

\* C12 as claimed: add_edge(src, dst) returns false and changes nothing when
\* src = dst or when src or dst is not a bound vertex id.
C12_AddEdgeContract ==
    [][(call'.op = "add_edge" /\ <<g, call, aborted>>' # <<g, call, aborted>>) =>
         LET source == call'.args[1]
             target == call'.args[2]
         IN (source = target \/ ~Bound(g, source) \/ ~Bound(g, target))
               => (~call'.ret /\ g' = g /\ aborted' = "none")]_vars

\* C13 as claimed: every edge has has_opposite set exactly when the graph
\* contains an edge from its target to its source.
C13_HasOpposite ==
    \A e \in 1..Len(g.edges) :
        g.edges[e].has_opposite <=>
            \E f \in 1..Len(g.edges) : /\ g.edges[f].source_vid = g.edges[e].target_vid
                                        /\ g.edges[f].target_vid = g.edges[e].source_vid

\* ------------------------------------------------------------------------
\* Gather caching (sample_programs/pagerank.cpp): signal_all(); start() with
\* and without enable_caching
\* ------------------------------------------------------------------------
\* fan-in: 0->2 and 1->2, every rank 1.0
RankFanInScript == << <<"v", 0, RankScale>>, <<"v", 1, RankScale>>, <<"v", 2, RankScale>>,
                      <<"e", 0, 2, 0>>, <<"e", 1, 2, 0>> >>
\* path 0->1->2, every rank 1.0
RankPathScript == << <<"v", 0, RankScale>>, <<"v", 1, RankScale>>, <<"v", 2, RankScale>>,
                     <<"e", 0, 1, 0>>, <<"e", 1, 2, 0>> >>
\* the cycle 0->1->2->0 fed by 3->0, every rank 1.0
RankCycleScript == << <<"v", 0, RankScale>>, <<"v", 1, RankScale>>, <<"v", 2, RankScale>>,
                      <<"v", 3, RankScale>>,
                      <<"e", 0, 1, 0>>, <<"e", 1, 2, 0>>, <<"e", 2, 0, 0>>, <<"e", 3, 0, 0>> >>

\* the state the driver is in after engine.signal_all()
InitCache ==
    /\ g \in {BuildGraph(EmptyGraph, s) : s \in {RankFanInScript, RankPathScript}}
    /\ num_threads \in 1..MaxThreads
    /\ load_ahead_distance \in 0..MaxLookAhead
    /\ program \in RankPrograms
    /\ active_list = signal_all_inserts
    /\ vertex_states = [v \in Vids |-> "FREE"]
    /\ in_use = [v \in Vids |-> FALSE]
    /\ num_idle_threads = 0
    /\ phase = "signalled"
    /\ pc = [w \in Workers |-> "unborn"]
    /\ job_vid = [w \in Workers |-> 0 - 1]
    /\ block = [w \in Workers |-> 0 - 1]
    /\ loc = [w \in Workers |-> LocInit]
    /\ SPM = SPMInit
    /\ counters = CountersInit
    /\ aborted = "none"
    /\ signals_left = 0
    /\ sig_log = [vid |-> 0 - 1, outcome |-> "none"]
    /\ call = NoCall
    /\ caching_enabled \in BOOLEAN
    /\ gather_cache = [v \in Vids |-> gather_type_default]
    /\ has_cache = [v \in Vids |-> FALSE]
    /\ posting = [w \in Workers |-> NoPost]
    /\ cache_hist = [v \in Vids |-> NoHist]
    /\ running_vertices = {}
    /\ deferred_activation_list = {}

SpecCache == InitCache /\ [][NextSSSP]_vars

\* C14 as claimed: with caching enabled, clear_gather_cache(v) leaves
\* has_cache[v] false, and the next execution of v's program gathers over its
\* edges instead of taking accum from gather_cache[v].
C14_ClearForcesGather ==
    /\ [][(/\ call'.op = "clear_gather_cache"
            /\ <<call, pc>>' # <<call, pc>>
            /\ caching_enabled) => ~has_cache'[call'.args[1]]]_vars
    /\ [][\A w \in 1..MaxThreads :
            (/\ w \in Workers
             /\ pc[w] = "execute_vprog"
             /\ pc'[w] # "execute_vprog"
             /\ cache_hist[job_vid[w]].cleared) => pc'[w] = "gather_in"]_vars

InitCycle ==
    /\ g \in {BuildGraph(EmptyGraph, s) : s \in {RankCycleScript, RankPathScript}}
    /\ num_threads \in 1..MaxThreads
    /\ load_ahead_distance \in 0..MaxLookAhead
    /\ program = "PAGERANK"
    /\ active_list = signal_all_inserts
    /\ vertex_states = [v \in Vids |-> "FREE"]
    /\ in_use = [v \in Vids |-> FALSE]
    /\ num_idle_threads = 0
    /\ phase = "signalled"
    /\ pc = [w \in Workers |-> "unborn"]
    /\ job_vid = [w \in Workers |-> 0 - 1]
    /\ block = [w \in Workers |-> 0 - 1]
    /\ loc = [w \in Workers |-> LocInit]
    /\ SPM = SPMInit
    /\ counters = CountersInit
    /\ aborted = "none"
    /\ signals_left = 0
    /\ sig_log = [vid |-> 0 - 1, outcome |-> "none"]
    /\ call = NoCall
    /\ caching_enabled = TRUE
    /\ gather_cache = [v \in Vids |-> gather_type_default]
    /\ has_cache = [v \in Vids |-> FALSE]
    /\ posting = [w \in Workers |-> NoPost]
    /\ cache_hist = [v \in Vids |-> NoHist]
    /\ running_vertices = {}
    /\ deferred_activation_list = {}

SpecCycle == InitCycle /\ [][NextSSSP]_vars

\* ------------------------------------------------------------------------
\* The SPM interface on its own (spm_interface.hpp): a driver calling
\* load_vdata, load_edata, remove_vdata, remove_edata, write_vdata and
\* write_edata
\* ------------------------------------------------------------------------
\* calls of the SPM interface a driver makes after the SPM has been filled
MaxSpmCalls == 2

\* the path 0->1->...->7: eight vertices and seven edges, one item more than
\* the SPM has slots
SpmScript == [i \in 1..8 |-> <<"v", i - 1, 0>>] \o [i \in 1..7 |-> <<"e", i - 1, i, 1>>]

\* the call op(args) of the SPM interface on graph gr, from state st: args
\* is the vertex id or the edge, followed for a write by the word written
SpmCallResult(gr, st, op, args) ==
    CASE op = "load_vdata" -> load_vdata(st, gr.vertices[args[1] + 1])
      [] op = "load_edata" -> load_edata(st, args[1], gr.edges[args[1]].edata)
      [] op = "remove_vdata" -> remove_vdata(st, gr.vertices[args[1] + 1])
      [] op = "remove_edata" -> remove_edata(st, args[1])
      [] op = "write_vdata" -> write_vdata(st, gr.vertices[args[1] + 1], args[2])
      [] op = "write_edata" -> write_edata(st, args[1], args[2])

\* a sequence of calls <<op, item>>, applied in order
RECURSIVE RunCalls(_, _, _)
RunCalls(gr, st, script) ==
    IF script = <<>> THEN st
    ELSE RunCalls(gr, SpmCallResult(gr, st, Head(script)[1], Tail(Head(script))).st, Tail(script))

\* the call sequences that bring the SPM to the state the driver starts
\* from: none; seven edges then seven vertices (every slot taken); seven
\* vertices then six edges (one slot left between the slabs); the pair
\* (edge 1, vertex 0) loaded twice, as the engine's load ahead does when the
\* run before it took its accumulator from the gather cache and left the pair
\* in the SPM
SpmFills ==
    { <<>>,
      [i \in 1..7 |-> <<"load_edata", i>>] \o [i \in 1..7 |-> <<"load_vdata", i - 1>>],
      [i \in 1..7 |-> <<"load_vdata", i - 1>>] \o [i \in 1..6 |-> <<"load_edata", i>>],
      << <<"load_edata", 1>>, <<"load_vdata", 0>>, <<"load_edata", 1>>, <<"load_vdata", 0>> >> }

\* the state after the graph is built, the interface constructed and the SPM
\* filled
InitSPM ==
    /\ g = BuildGraph(EmptyGraph, SpmScript)
    /\ num_threads = 1
    /\ load_ahead_distance = 0
    /\ program = "DEFAULT"
    /\ active_list = {}
    /\ vertex_states = [v \in Vids |-> "FREE"]
    /\ in_use = [v \in Vids |-> FALSE]
    /\ num_idle_threads = 0
    /\ phase = "spm_driver"
    /\ pc = [w \in Workers |-> "unborn"]
    /\ job_vid = [w \in Workers |-> 0 - 1]
    /\ block = [w \in Workers |-> 0 - 1]
    /\ loc = [w \in Workers |-> LocInit]
    /\ \E fill \in SpmFills :
          LET st == RunCalls(g, [SPM |-> SPMInit, objs |-> g.objs, counters |-> CountersInit], fill)
          IN /\ SPM = st.SPM
             /\ counters = st.counters
    /\ aborted = "none"
    /\ signals_left = 0
    /\ sig_log = [vid |-> 0 - 1, outcome |-> "none"]
    /\ call = NoCall
    /\ caching_enabled = FALSE
    /\ gather_cache = [v \in Vids |-> gather_type_default]
    /\ has_cache = [v \in Vids |-> FALSE]
    /\ posting = [w \in Workers |-> NoPost]
    /\ cache_hist = [v \in Vids |-> NoHist]
    /\ running_vertices = {}
    /\ deferred_activation_list = {}

\* the driver calls op(args)
SpmCall(op, args) ==
    /\ Running
    /\ phase = "spm_driver"
    /\ call.n < MaxSpmCalls
    /\ LET r == SpmCallResult(g, CurSt, op, args)
       IN /\ SetSt(r.st)
          /\ call' = [op |-> op, args |-> args, ret |-> r.ret, n |-> call.n + 1]
    /\ UNCHANGED <<num_threads, load_ahead_distance, program, active_list,
                   vertex_states, in_use, num_idle_threads, phase, pc, job_vid,
                   block, loc, aborted, signals_left, sig_log>>
    /\ UNCHANGED cache_vars
    /\ UNCHANGED deferred_vars

\* the driver's calls; the graph of SpmScript has the vertex ids 0..7 and the
\* edges 1..7
LoadVData == \E vid \in 0..7 : SpmCall("load_vdata", <<vid>>)
LoadEData == \E e \in 1..7 : SpmCall("load_edata", <<e>>)
RemoveVData == \E vid \in 0..7 : SpmCall("remove_vdata", <<vid>>)
RemoveEData == \E e \in 1..7 : SpmCall("remove_edata", <<e>>)

\* the driver's writes: of a word that fits 32 bits and of one that does not
WriteVData ==
    \E vid \in 0..7, w_data \in {LongOf(7), [hi |-> 1, lo |-> 7]} :
        SpmCall("write_vdata", <<vid, w_data>>)
WriteEData ==
    \E e \in 1..7, w_data \in {LongOf(7), [hi |-> 1, lo |-> 7]} :
        SpmCall("write_edata", <<e, w_data>>)

NextSPM ==
    \/ LoadVData
    \/ LoadEData
    \/ RemoveVData
    \/ RemoveEData
    \/ WriteVData
    \/ WriteEData

SpecSPM == InitSPM /\ [][NextSPM]_vars

\* the slots of the vertex slab and of the edge slab
VSlots(S) ==
    {a \in VSLAB_START..(SPM2REG(S, ADDR_VSLAB_END) - 1) : (a - VSLAB_START) % v_slot_size = 0}
ESlots(S) ==
    {a \in (SPM2REG(S, ADDR_ESLAB_END) + 1)..(SPM_SIZE - e_slot_size) :
        (SPM_SIZE - e_slot_size - a) % e_slot_size = 0}

\* the item is held by a slot of its slab
VResident(S, vid) == \E a \in VSlots(S) : SPM2REG(S, a) = AddrOfVData(g.vertices[vid + 1])
EResident(S, e) == \E a \in ESlots(S) : SPM2REG(S, a) = AddrOfEData(e)

\* the slab contains an empty slot
VHole(S) == \E a \in VSlots(S) : SPM2REG(S, a) = SPM_NULL
EHole(S) == \E a \in ESlots(S) : SPM2REG(S, a) = SPM_NULL

\* no slot can be found or made for one more item of size slot_size: no
\* empty slot in either slab and fewer than slot_size bytes between the end
\* of the vertex slab and the lowest edge slot
SpmFull(S, slot_size) ==
    /\ ~VHole(S)
    /\ ~EHole(S)
    /\ SPM2REG(S, ADDR_ESLAB_END) + e_slot_size - SPM2REG(S, ADDR_VSLAB_END) < slot_size

\* the step is a call of op by the driver of the SPM interface
SpmStep(op) == call'.n = call.n + 1 /\ call'.op = op

\* C17 as claimed: load_vdata of a non-resident vertex and load_edata return
\* false only when the SPM is genuinely full (no empty slot in the own slab,
\* no room for a slot between the slabs, no empty slot in the other slab);
\* otherwise they return true and the item is resident afterwards.
C17_LoadFailsOnlyWhenFull ==
    /\ [][(SpmStep("load_vdata") /\ ~VResident(SPM, call'.args[1]))
             => /\ call'.ret <=> ~SpmFull(SPM, v_slot_size)
                /\ call'.ret => VResident(SPM', call'.args[1])]_vars
    /\ [][SpmStep("load_edata")
             => /\ call'.ret <=> ~SpmFull(SPM, e_slot_size)
                /\ call'.ret => EResident(SPM', call'.args[1])]_vars

\* C18: a load_vdata or load_edata that returns false because no slot could
\* be found or made adds exactly one to num_failed_loads; a load that returns
\* true, and a load_vdata of a resident vertex, leave it unchanged.
C18_FailedLoadsCounted ==
    [][(SpmStep("load_vdata") \/ SpmStep("load_edata"))
          => counters'.num_failed_loads =
                counters.num_failed_loads
                   + (IF /\ ~call'.ret
                         /\ ~(call'.op = "load_vdata" /\ VResident(SPM, call'.args[1]))
                      THEN 1 ELSE 0)]_vars

\* a load has just failed on a full SPM and has been counted
C18_Witness ==
    /\ call.n > 0
    /\ call.op \in {"load_vdata", "load_edata"}
    /\ ~call.ret
    /\ SpmFull(SPM, v_slot_size)
    /\ counters.num_failed_loads > 0

\* C19: load_vdata of a vertex whose data is resident in the vertex slab
\* returns false and leaves every word of the SPM unchanged.
C19_ResidentLoadIsNoOp ==
    [][(SpmStep("load_vdata") /\ VResident(SPM, call'.args[1]))
          => (~call'.ret /\ SPM' = SPM)]_vars

\* a load_vdata of a resident vertex has just returned false
C19_Witness ==
    /\ call.n > 0
    /\ call.op = "load_vdata"
    /\ ~call.ret
    /\ VResident(SPM, call.args[1])
    /\ ~SpmFull(SPM, v_slot_size)

\* C20 as claimed: remove_vdata / remove_edata of data that is not resident
\* returns false and leaves the SPM and main memory unchanged, and so does a
\* second remove made immediately after a successful remove of the same item.
C20_RemoveIsIdempotent ==
    [][\A op \in {"remove_vdata", "remove_edata"} :
          (/\ SpmStep(op)
           /\ \/ op = "remove_vdata" /\ ~VResident(SPM, call'.args[1])
              \/ op = "remove_edata" /\ ~EResident(SPM, call'.args[1])
              \/ call.op = op /\ call.args = call'.args /\ call.ret)
             => (~call'.ret /\ SPM' = SPM /\ g' = g)]_vars

\* C21: remove_vdata(v) of a resident vertex followed by load_vdata(v)
\* succeeds and restores the set of non-zero tags of the live vertex slots
\* (the remove takes exactly v's tag out, the load puts exactly it back), and
\* neither call changes the set of tags of the live edge slots.
C21_RemoveLoadRoundTrip ==
    /\ [][LET VTags(S) == {SPM2REG(S, a) : a \in VSlots(S)} \ {SPM_NULL}
              ETags(S) == {SPM2REG(S, a) : a \in ESlots(S)} \ {SPM_NULL}
              tag == AddrOfVData(g.vertices[call'.args[1] + 1])
          IN (SpmStep("remove_vdata") /\ call'.ret)
                => /\ tag \in VTags(SPM)
                   /\ VTags(SPM') = VTags(SPM) \ {tag}
                   /\ ETags(SPM') = ETags(SPM)]_vars
    /\ [][LET VTags(S) == {SPM2REG(S, a) : a \in VSlots(S)} \ {SPM_NULL}
              ETags(S) == {SPM2REG(S, a) : a \in ESlots(S)} \ {SPM_NULL}
              tag == AddrOfVData(g.vertices[call'.args[1] + 1])
          IN (/\ call.op = "remove_vdata"
              /\ call.ret
              /\ SpmStep("load_vdata")
              /\ call'.args = call.args)
                => /\ call'.ret
                   /\ VTags(SPM') = VTags(SPM) \cup {tag}
                   /\ ETags(SPM') = ETags(SPM)]_vars

\* vertex 3 has just been loaded again after its removal from the SPM that
\* held the vertices 0..6 and the edges 1..6
C21_Witness ==
    /\ call.n = 2
    /\ call.op = "load_vdata"
    /\ call.args = <<3>>
    /\ call.ret
    /\ \A v \in 0..7 : VResident(SPM, v) <=> v < 7
    /\ \A e \in 1..7 : EResident(SPM, e) <=> e < 7

\* C22 as claimed: write_vdata(v, w) on a resident v followed by
\* remove_vdata(v) leaves v.data = w in main memory, for every word w.
C22_RemoveStoresBack ==
    [][(/\ call.op = "write_vdata"
        /\ call.ret
        /\ SpmStep("remove_vdata")
        /\ call'.args[1] = call.args[1])
          => /\ call'.ret
             /\ g'.objs[g.vertices[call.args[1] + 1]].vdata = call.args[2]]_vars

\* C23 as claimed: remove_edata of a resident edge e returns true, stores the
\* payload of e's slot back to e.data in main memory (so after write_edata(e, w)
\* e.data = w) and frees the slot: the edge slab shrinks if the slot is its
\* last one, else the slot gets tag 0 and is pushed onto eempty_head.
C23_RemoveEdataMirrors ==
    [][LET e == call'.args[1]
           top == SPM_SIZE - e_slot_size
           held == {a \in ESlots(SPM) : SPM2REG(SPM, a) = AddrOfEData(e)}
           slot == top - Min({top - a : a \in held})
       IN (SpmStep("remove_edata") /\ EResident(SPM, e))
             => /\ call'.ret
                /\ g'.edges[e].edata = SPM2REG(SPM, slot + 8)
                /\ (call.op = "write_edata" /\ call.ret /\ call.args[1] = e)
                      => g'.edges[e].edata = call.args[2]
                /\ IF slot - e_slot_size = SPM2REG(SPM, ADDR_ESLAB_END)
                   THEN SPM' = REG2SPM(SPM, ADDR_ESLAB_END, slot)
                   ELSE /\ SPM2REG(SPM', slot) = SPM_NULL
                        /\ SPM2REG(SPM', slot + 8) = AsWord(SPM2REG(SPM, ADDR_EEMPTY_HEAD))
                        /\ SPM2REG(SPM', ADDR_EEMPTY_HEAD) = slot
                        /\ SPM2REG(SPM', ADDR_ESLAB_END) = SPM2REG(SPM, ADDR_ESLAB_END)]_vars

\* ------------------------------------------------------------------------
\* The SPM interface called by concurrent workers (spm_interface.hpp)
\* ------------------------------------------------------------------------
\* Two worker threads call load_vdata, load_edata, remove_vdata and
\* remove_edata as the engine's workers do, with no lock of their own around
\* the calls.  A call is atomic where it holds the mutex that guards every
\* word it touches; it is cut into steps where it reads a word guarded by a
\* mutex it does not hold (the other slab's end), where it waits for a
\* mutex, and between the read and the write of num_failed_loads++.
\* loc[w] holds the call's argument (item, -1 outside a call) and the
\* counter value read (reg).

\* calls the workers make in all
MaxSlabCalls == 3

\* std::mutex vslab_mutex / eslab_mutex: nobody holds it.  load_vdata holds
\* vslab_mutex from its lock to its return, load_edata's compaction scope
\* takes vslab_mutex, then eslab_mutex.
vslab_mutex_free ==
    \A x \in Workers : pc[x] \notin {"lv_extend", "lv_lock_e", "lv_count", "le_lock_e"}
\* a load_edata that keeps eslab_mutex of its first scope while it goes for
\* vslab_mutex
eslab_mutex_kept == \A x \in Workers : pc[x] \notin {"le_extend", "le_lock_v"}

eslab_mutex_free == \A x \in Workers : pc[x] # "le_extend"

\* the SPM with every slot taken (7 edges, 7 vertices), or with two slots
\* left between the slabs (6 vertices, 6 edges)
InitSlab ==
    /\ g = BuildGraph(EmptyGraph, SpmScript)
    /\ num_threads = 2
    /\ load_ahead_distance = 0
    /\ program = "DEFAULT"
    /\ active_list = {}
    /\ vertex_states = [v \in Vids |-> "FREE"]
    /\ in_use = [v \in Vids |-> FALSE]
    /\ num_idle_threads = 0
    /\ phase = "spm_workers"
    /\ pc = [w \in Workers |-> "idle"]
    /\ job_vid = [w \in Workers |-> 0 - 1]
    /\ block = [w \in Workers |-> 0 - 1]
    /\ loc = [w \in Workers |-> [item |-> 0 - 1, reg |-> 0]]
    /\ \E fill \in { [i \in 1..7 |-> <<"load_edata", i>>] \o [i \in 1..7 |-> <<"load_vdata", i - 1>>],
                     [i \in 1..6 |-> <<"load_vdata", i - 1>>] \o [i \in 1..6 |-> <<"load_edata", i>>] } :
          LET st == RunCalls(g, [SPM |-> SPMInit, objs |-> g.objs, counters |-> CountersInit], fill)
          IN /\ SPM = st.SPM
             /\ counters = st.counters
    /\ aborted = "none"
    /\ signals_left = 0
    /\ sig_log = [vid |-> 0 - 1, outcome |-> "none"]
    /\ call = NoCall
    /\ caching_enabled = FALSE
    /\ gather_cache = [v \in Vids |-> gather_type_default]
    /\ has_cache = [v \in Vids |-> FALSE]
    /\ posting = [w \in Workers |-> NoPost]
    /\ cache_hist = [v \in Vids |-> NoHist]
    /\ running_vertices = {}
    /\ deferred_activation_list = {}

\* load_vdata up to its lock (lines 125-127): the search of the vertex slab,
\* made without a lock
LoadVDataFind(w) ==
    /\ Running
    /\ phase = "spm_workers"
    /\ pc[w] = "idle"
    /\ call.n < MaxSlabCalls
    /\ \E vid \in {0, 6, 7} :
          /\ IF find_vdata(SPM, AddrOfVData(g.vertices[vid + 1])) # SPM_NULL
             THEN UNCHANGED <<pc, loc>>
             ELSE /\ pc' = [pc EXCEPT ![w] = "lv_lock"]
                  /\ loc' = [loc EXCEPT ![w] = [item |-> g.vertices[vid + 1], reg |-> 0]]
          /\ call' = [op |-> "load_vdata", args |-> <<vid>>, ret |-> FALSE, n |-> call.n + 1]
    /\ UNCHANGED <<g, SPM, counters>>
    /\ UNCHANGED <<num_threads, load_ahead_distance, program, active_list,
                   vertex_states, in_use, num_idle_threads, phase, job_vid,
                   block, aborted, signals_left, sig_log>>
    /\ UNCHANGED cache_vars
    /\ UNCHANGED deferred_vars

\* load_vdata from its lock of vslab_mutex (lines 129-142): the load into an
\* empty slot, or the test whether the slab can be extended, which reads the
\* end of the edge slab without eslab_mutex
LoadVDataLocked(w) ==
    /\ Running
    /\ pc[w] = "lv_lock"
    /\ vslab_mutex_free
    /\ LET ref == loc[w].item
           head == SPM2REG(SPM, ADDR_VEMPTY_HEAD)
           end == SPM2REG(SPM, ADDR_VSLAB_END)
       IN IF head # SPM_NULL
          THEN /\ SPM' = internal_load_vdata(
                            REG2SPM(SPM, ADDR_VEMPTY_HEAD, AsAddr(SPM2REG(SPM, head + 8))),
                            AddrOfVData(ref), g.objs[ref].vdata, head)
               /\ pc' = [pc EXCEPT ![w] = "idle"]
               /\ loc' = [loc EXCEPT ![w] = [item |-> 0 - 1, reg |-> 0]]
          ELSE /\ pc' = [pc EXCEPT ![w] =
                            IF end + v_slot_size <= SPM2REG(SPM, ADDR_ESLAB_END) + e_slot_size
                            THEN "lv_extend" ELSE "lv_lock_e"]
               /\ UNCHANGED <<SPM, loc>>
    /\ UNCHANGED <<g, counters, call>>
    /\ UNCHANGED <<num_threads, load_ahead_distance, program, active_list,
                   vertex_states, in_use, num_idle_threads, phase, job_vid,
                   block, aborted, signals_left, sig_log>>
    /\ UNCHANGED cache_vars
    /\ UNCHANGED deferred_vars

\* load_vdata's extension of the vertex slab (lines 144-147)
LoadVDataExtend(w) ==
    /\ Running
    /\ pc[w] = "lv_extend"
    /\ LET ref == loc[w].item
           end == SPM2REG(SPM, ADDR_VSLAB_END)
       IN SPM' = internal_load_vdata(REG2SPM(SPM, ADDR_VSLAB_END, end + v_slot_size),
                                     AddrOfVData(ref), g.objs[ref].vdata, end)
    /\ pc' = [pc EXCEPT ![w] = "idle"]
    /\ loc' = [loc EXCEPT ![w] = [item |-> 0 - 1, reg |-> 0]]
    /\ UNCHANGED <<g, counters, call>>
    /\ UNCHANGED <<num_threads, load_ahead_distance, program, active_list,
                   vertex_states, in_use, num_idle_threads, phase, job_vid,
                   block, aborted, signals_left, sig_log>>
    /\ UNCHANGED cache_vars
    /\ UNCHANGED deferred_vars

\* load_vdata's compaction scope (lines 151-199), entered with eslab_mutex:
\* the edge slab is compacted and the vertex loaded, or the load fails and
\* num_failed_loads is read for the increment
LoadVDataCompact(w) ==
    /\ Running
    /\ pc[w] = "lv_lock_e"
    /\ eslab_mutex_free
    /\ LET ref == loc[w].item
           end == SPM2REG(SPM, ADDR_VSLAB_END)
           edge_head == SPM2REG(SPM, ADDR_EEMPTY_HEAD)
       IN IF edge_head # SPM_NULL
          THEN /\ SPM' = internal_load_vdata(CompactEdgeSlab(SPM, edge_head, end),
                                             AddrOfVData(ref), g.objs[ref].vdata, end)
               /\ pc' = [pc EXCEPT ![w] = "idle"]
               /\ loc' = [loc EXCEPT ![w] = [item |-> 0 - 1, reg |-> 0]]
          ELSE /\ pc' = [pc EXCEPT ![w] = "lv_count"]
               /\ loc' = [loc EXCEPT ![w].reg = counters.num_failed_loads]
               /\ UNCHANGED SPM
    /\ UNCHANGED <<g, counters, call>>
    /\ UNCHANGED <<num_threads, load_ahead_distance, program, active_list,
                   vertex_states, in_use, num_idle_threads, phase, job_vid,
                   block, aborted, signals_left, sig_log>>
    /\ UNCHANGED cache_vars
    /\ UNCHANGED deferred_vars

\* load_edata's first scope, under eslab_mutex (lines 283-297): the load into
\* an empty slot, or the test whether the slab can be extended, which reads
\* the end of the vertex slab without vslab_mutex
LoadEDataLocked(w) ==
    /\ Running
    /\ phase = "spm_workers"
    /\ pc[w] = "idle"
    /\ call.n < MaxSlabCalls
    /\ eslab_mutex_free
    /\ \E e \in {1, 7} :
          /\ LET head == SPM2REG(SPM, ADDR_EEMPTY_HEAD)
                 end == SPM2REG(SPM, ADDR_ESLAB_END)
             IN IF head # SPM_NULL
                THEN /\ SPM' = internal_load_edata(
                                  REG2SPM(SPM, ADDR_EEMPTY_HEAD, AsAddr(SPM2REG(SPM, head + 8))),
                                  AddrOfEData(e), g.edges[e].edata, head)
                     /\ UNCHANGED <<pc, loc>>
                ELSE /\ pc' = [pc EXCEPT ![w] =
                                  IF end - e_slot_size >= SPM2REG(SPM, ADDR_VSLAB_END)
                                  THEN "le_extend" ELSE "le_lock_v"]
                     /\ loc' = [loc EXCEPT ![w] = [item |-> e, reg |-> 0]]
                     /\ UNCHANGED SPM
          /\ call' = [op |-> "load_edata", args |-> <<e>>, ret |-> FALSE, n |-> call.n + 1]
    /\ UNCHANGED <<g, counters>>
    /\ UNCHANGED <<num_threads, load_ahead_distance, program, active_list,
                   vertex_states, in_use, num_idle_threads, phase, job_vid,
                   block, aborted, signals_left, sig_log>>
    /\ UNCHANGED cache_vars
    /\ UNCHANGED deferred_vars

\* load_edata's extension of the edge slab (lines 299-301)
LoadEDataExtend(w) ==
    /\ Running
    /\ pc[w] = "le_extend"
    /\ LET e == loc[w].item
           end == SPM2REG(SPM, ADDR_ESLAB_END)
       IN SPM' = internal_load_edata(REG2SPM(SPM, ADDR_ESLAB_END, end - e_slot_size),
                                     AddrOfEData(e), g.edges[e].edata, end)
    /\ pc' = [pc EXCEPT ![w] = "idle"]
    /\ loc' = [loc EXCEPT ![w] = [item |-> 0 - 1, reg |-> 0]]
    /\ UNCHANGED <<g, counters, call>>
    /\ UNCHANGED <<num_threads, load_ahead_distance, program, active_list,
                   vertex_states, in_use, num_idle_threads, phase, job_vid,
                   block, aborted, signals_left, sig_log>>
    /\ UNCHANGED cache_vars
    /\ UNCHANGED deferred_vars

\* load_edata's second scope: the lock of vslab_mutex (line 308)
LoadEDataLockV(w) ==
    /\ Running
    /\ pc[w] = "le_lock_v"
    /\ vslab_mutex_free
    /\ pc' = [pc EXCEPT ![w] = "le_lock_e"]
    /\ UNCHANGED <<g, SPM, counters, call, loc>>
    /\ UNCHANGED <<num_threads, load_ahead_distance, program, active_list,
                   vertex_states, in_use, num_idle_threads, phase, job_vid,
                   block, aborted, signals_left, sig_log>>
    /\ UNCHANGED cache_vars
    /\ UNCHANGED deferred_vars

\* load_edata's second scope from the lock of eslab_mutex (lines 309-355):
\* the vertex slab is compacted and the edge loaded, or the load fails and
\* num_failed_loads is read for the increment, with every mutex released
LoadEDataCompact(w) ==
    /\ Running
    /\ pc[w] = "le_lock_e"
    /\ eslab_mutex_free
    /\ LET e == loc[w].item
           vertex_head == SPM2REG(SPM, ADDR_VEMPTY_HEAD)
       IN IF vertex_head # SPM_NULL
          THEN /\ LET S1 == CompactVertexSlab(SPM, vertex_head)
                      end == SPM2REG(S1, ADDR_ESLAB_END)
                  IN SPM' = internal_load_edata(REG2SPM(S1, ADDR_ESLAB_END, end - e_slot_size),
                                                AddrOfEData(e), g.edges[e].edata, end)
               /\ pc' = [pc EXCEPT ![w] = "idle"]
               /\ loc' = [loc EXCEPT ![w] = [item |-> 0 - 1, reg |-> 0]]
          ELSE /\ pc' = [pc EXCEPT ![w] = "le_count"]
               /\ loc' = [loc EXCEPT ![w].reg = counters.num_failed_loads]
               /\ UNCHANGED SPM
    /\ UNCHANGED <<g, counters, call>>
    /\ UNCHANGED <<num_threads, load_ahead_distance, program, active_list,
                   vertex_states, in_use, num_idle_threads, phase, job_vid,
                   block, aborted, signals_left, sig_log>>
    /\ UNCHANGED cache_vars
    /\ UNCHANGED deferred_vars

\* the store of num_failed_loads++ (lines 201 and 354)
CountFailedLoad(w) ==
    /\ Running
    /\ pc[w] \in {"lv_count", "le_count"}
    /\ counters' = [counters EXCEPT !.num_failed_loads = loc[w].reg + 1]
    /\ pc' = [pc EXCEPT ![w] = "idle"]
    /\ loc' = [loc EXCEPT ![w] = [item |-> 0 - 1, reg |-> 0]]
    /\ UNCHANGED <<g, SPM, call>>
    /\ UNCHANGED <<num_threads, load_ahead_distance, program, active_list,
                   vertex_states, in_use, num_idle_threads, phase, job_vid,
                   block, aborted, signals_left, sig_log>>
    /\ UNCHANGED cache_vars
    /\ UNCHANGED deferred_vars

\* remove_vdata, all of it under vslab_mutex
RemoveVDataBy(w) ==
    /\ Running
    /\ phase = "spm_workers"
    /\ pc[w] = "idle"
    /\ call.n < MaxSlabCalls
    /\ vslab_mutex_free
    /\ \E vid \in {0, 6, 7} :
          LET r == remove_vdata(CurSt, g.vertices[vid + 1])
          IN /\ SetSt(r.st)
             /\ call' = [op |-> "remove_vdata", args |-> <<vid>>, ret |-> r.ret, n |-> call.n + 1]
    /\ UNCHANGED <<pc, loc>>
    /\ UNCHANGED <<num_threads, load_ahead_distance, program, active_list,
                   vertex_states, in_use, num_idle_threads, phase, job_vid,
                   block, aborted, signals_left, sig_log>>
    /\ UNCHANGED cache_vars
    /\ UNCHANGED deferred_vars

\* remove_edata, all of it under eslab_mutex
RemoveEDataBy(w) ==
    /\ Running
    /\ phase = "spm_workers"
    /\ pc[w] = "idle"
    /\ call.n < MaxSlabCalls
    /\ eslab_mutex_free
    /\ \E e \in {1, 7} :
          LET r == remove_edata(CurSt, e)
          IN /\ SetSt(r.st)
             /\ call' = [op |-> "remove_edata", args |-> <<e>>, ret |-> r.ret, n |-> call.n + 1]
    /\ UNCHANGED <<pc, loc>>
    /\ UNCHANGED <<num_threads, load_ahead_distance, program, active_list,
                   vertex_states, in_use, num_idle_threads, phase, job_vid,
                   block, aborted, signals_left, sig_log>>
    /\ UNCHANGED cache_vars
    /\ UNCHANGED deferred_vars

\* read_vdata / read_edata, all of it under vslot_reloc_mutex /
\* eslot_reloc_mutex, which only a compaction takes besides: the value read
\* comes back in the argument ret_data
ReadVDataBy(w) ==
    /\ Running
    /\ phase = "spm_workers"
    /\ pc[w] = "idle"
    /\ call.n < MaxSlabCalls
    /\ \E vid \in {0, 6, 7} :
          call' = [op |-> "read_vdata",
                   args |-> <<vid, read_vdata_data(CurSt, g.vertices[vid + 1])>>,
                   ret |-> read_vdata_ret(CurSt, g.vertices[vid + 1]), n |-> call.n + 1]
    /\ UNCHANGED <<g, SPM, counters, pc, loc>>
    /\ UNCHANGED <<num_threads, load_ahead_distance, program, active_list,
                   vertex_states, in_use, num_idle_threads, phase, job_vid,
                   block, aborted, signals_left, sig_log>>
    /\ UNCHANGED cache_vars
    /\ UNCHANGED deferred_vars

ReadEDataBy(w) ==
    /\ Running
    /\ phase = "spm_workers"
    /\ pc[w] = "idle"
    /\ call.n < MaxSlabCalls
    /\ \E e \in {1, 7} :
          call' = [op |-> "read_edata", args |-> <<e, read_edata_data(CurSt, e)>>,
                   ret |-> read_edata_ret(CurSt, e), n |-> call.n + 1]
    /\ UNCHANGED <<g, SPM, counters, pc, loc>>
    /\ UNCHANGED <<num_threads, load_ahead_distance, program, active_list,
                   vertex_states, in_use, num_idle_threads, phase, job_vid,
                   block, aborted, signals_left, sig_log>>
    /\ UNCHANGED cache_vars
    /\ UNCHANGED deferred_vars

\* write_vdata / write_edata, all of it under vslot_reloc_mutex /
\* eslot_reloc_mutex
WriteVDataBy(w) ==
    /\ Running
    /\ phase = "spm_workers"
    /\ pc[w] = "idle"
    /\ call.n < MaxSlabCalls
    /\ \E vid \in {0, 6, 7} :
          LET r == write_vdata(CurSt, g.vertices[vid + 1], LongOf(7))
          IN /\ SetSt(r.st)
             /\ call' = [op |-> "write_vdata", args |-> <<vid, LongOf(7)>>, ret |-> r.ret,
                         n |-> call.n + 1]
    /\ UNCHANGED <<pc, loc>>
    /\ UNCHANGED <<num_threads, load_ahead_distance, program, active_list,
                   vertex_states, in_use, num_idle_threads, phase, job_vid,
                   block, aborted, signals_left, sig_log>>
    /\ UNCHANGED cache_vars
    /\ UNCHANGED deferred_vars

WriteEDataBy(w) ==
    /\ Running
    /\ phase = "spm_workers"
    /\ pc[w] = "idle"
    /\ call.n < MaxSlabCalls
    /\ \E e \in {1, 7} :
          LET r == write_edata(CurSt, e, LongOf(7))
          IN /\ SetSt(r.st)
             /\ call' = [op |-> "write_edata", args |-> <<e, LongOf(7)>>, ret |-> r.ret,
                         n |-> call.n + 1]
    /\ UNCHANGED <<pc, loc>>
    /\ UNCHANGED <<num_threads, load_ahead_distance, program, active_list,
                   vertex_states, in_use, num_idle_threads, phase, job_vid,
                   block, aborted, signals_left, sig_log>>
    /\ UNCHANGED cache_vars
    /\ UNCHANGED deferred_vars

NextSlab ==
    \/ \E w \in Workers : LoadVDataFind(w)
    \/ \E w \in Workers : LoadVDataLocked(w)
    \/ \E w \in Workers : LoadVDataExtend(w)
    \/ \E w \in Workers : LoadVDataCompact(w)
    \/ \E w \in Workers : LoadEDataLocked(w)
    \/ \E w \in Workers : LoadEDataExtend(w)
    \/ \E w \in Workers : LoadEDataLockV(w)
    \/ \E w \in Workers : LoadEDataCompact(w)
    \/ \E w \in Workers : CountFailedLoad(w)
    \/ \E w \in Workers : RemoveVDataBy(w)
    \/ \E w \in Workers : RemoveEDataBy(w)
    \/ \E w \in Workers : ReadVDataBy(w)
    \/ \E w \in Workers : ReadEDataBy(w)
    \/ \E w \in Workers : WriteVDataBy(w)
    \/ \E w \in Workers : WriteEDataBy(w)

SpecSlab == InitSlab /\ [][NextSlab]_vars

\* C24 as claimed: in every state the vertex slab ends at or below the lowest
\* live edge slot (vslab_end <= eslab_end + e_slot_size) and no live vertex
\* slot overlaps a live edge slot or the four metadata words.
C24_SlabsDisjoint ==
    /\ SPM2REG(SPM, ADDR_VSLAB_END) <= SPM2REG(SPM, ADDR_ESLAB_END) + e_slot_size
    /\ \A a \in VSlots(SPM) :
          /\ a >= 4 * SPM_POINTER_SZ
          /\ \A b \in ESlots(SPM) : a + v_slot_size <= b \/ b + e_slot_size <= a

\* C25 as claimed: no step of a run with concurrent workers decreases
\* spm_hits, spm_misses or num_failed_loads.
C25_CountersMonotonic ==
    [][/\ counters'.spm_hits >= counters.spm_hits
       /\ counters'.spm_misses >= counters.spm_misses
       /\ counters'.num_failed_loads >= counters.num_failed_loads]_vars


\* ------------------------------------------------------------------------
\* The load-ahead distance 0
\* ------------------------------------------------------------------------

C27_SingleWorkerNeverBlocks ==
    num_threads = 1 =>
        \A w \in Workers : pc[w] \notin {"wait_no_jobs", "wait_exclusive_access"}


\* ------------------------------------------------------------------------
\* Doubly connected neighbours
\* ------------------------------------------------------------------------

\* C29 as claimed: during execute_vprog the vertex data of a doubly
\* connected neighbour that the gather has kept in the SPM (it is in
\* loaded_doubcon_neighs and resident) stays resident through every gather
\* step and every scatter step of that execution, up to the final eviction
\* loop.
C29_DoubconStaysResident ==
    [][\A w \in Workers : \A k \in 1..Len(loc[w].loaded_doubcon_neighs) :
          LET tag == AddrOfVData(loc[w].loaded_doubcon_neighs[k])
          IN (/\ pc[w] \in {"gather_in", "gather_out", "apply", "scatter_out",
                            "post_delta", "scatter_in"}
              /\ pc'[w] \in {"gather_in", "gather_out", "apply", "scatter_out",
                             "post_delta", "scatter_in", "evict_doubcon"}
              /\ \E a \in VSlots(SPM) : SPM2REG(SPM, a) = tag)
             => \E a \in VSlots(SPM') : SPM2REG(SPM', a) = tag]_vars


\* ------------------------------------------------------------------------
\* The GAS pipeline
\* ------------------------------------------------------------------------

ResignalScript == << <<"v", 0, 0>>, <<"v", 1, 0>>, <<"v", 2, 0>>,
                     <<"e", 0, 1, 0>>, <<"e", 1, 2, 0>>, <<"e", 2, 1, 0>> >>

\* runs of the re-signalling program on that graph and on the path (where
\* the run ends), every thread that can take a step eventually taking one
FairSpecResignal ==
    /\ InitWith({ResignalScript, PathScript}, 1..MaxThreads, {0}, {"RESIGNAL"})
    /\ [][Next]_vars
    /\ Fairness

\* C28 as claimed: a worker that was handed a vid and is in
\* get_exclusive_access(vid), testing or waiting, is eventually granted
\* access (it leaves get_exclusive_access with the vertex RUNNING) in every
\* weakly fair execution, even when vertices whose neighbourhoods overlap
\* N(vid) are re-signalled and executed again and again.
C28_NoStarvation ==
    \A w \in 1..MaxThreads :
        (w \in Workers /\ pc[w] \in {"get_exclusive_access", "wait_exclusive_access"})
            ~> (w \in Workers /\ pc[w] = "preload"
                  /\ vertex_states[job_vid[w]] = "RUNNING")

\* C28, amended: broadcasting on release leaves no waiter asleep on a free
\* vertex.  A worker waits on cv_exclusive_access[b], b a vertex of the
\* graph, only while b is in use by the execution of another worker that has
\* b in its neighbourhood; the release that frees b wakes every waiter on b,
\* and a woken waiter whose test finds no vertex of N(vid) in use is granted
\* access.  (A waiter whose every re-test finds N(vid) acquired again keeps
\* waiting.)
C28_NoSleeperOnFreeVertex ==
    /\ [](\A w \in Workers :
            (pc[w] = "wait_exclusive_access" /\ block[w] # PLACEHOLDER_ID)
              => /\ in_use[block[w]]
                 /\ \E x \in Workers \ {w} :
                       /\ pc[x] \in {"preload", "execute_vprog", "gather_in",
                                     "gather_out", "apply", "scatter_out",
                                     "post_delta", "scatter_in", "evict_doubcon",
                                     "release"}
                       /\ block[w] \in {job_vid[x]}
                              \cup Range(InNeighIds(Vertex(job_vid[x])))
                              \cup Range(OutNeighIds(Vertex(job_vid[x]))))
    /\ [][\A w \in Workers :
            /\ (/\ pc[w] = "wait_exclusive_access"
                /\ block[w] # PLACEHOLDER_ID
                /\ ~in_use'[block[w]])
                 => pc'[w] = "get_exclusive_access"
            /\ (/\ pc[w] = "get_exclusive_access"
                /\ pc'[w] # "get_exclusive_access"
                /\ ~IsPlaceholder(job_vid[w])
                /\ \A b \in {job_vid[w]}
                       \cup Range(InNeighIds(Vertex(job_vid[w])))
                       \cup Range(OutNeighIds(Vertex(job_vid[w]))) : ~in_use[b])
                 => /\ pc'[w] = "preload"
                    /\ vertex_states'[job_vid[w]] = "RUNNING"]_vars

\* a waiter on vertex 1 has been woken by a release and is back at its test
\* while the other worker already holds vertex 1 again
C28_Witness ==
    \E w \in Workers : \E x \in Workers \ {w} :
        /\ program = "RESIGNAL"
        /\ pc[w] = "get_exclusive_access"
        /\ block[w] # 0 - 1
        /\ pc[x] = "preload"
        /\ in_use[block[w]]


\* ------------------------------------------------------------------------
\* Scheduler state
\* ------------------------------------------------------------------------

\* C31: every vid in active_list has vertex_states[vid] = FREE, in every
\* state after signal_all and throughout start.
C31_ActiveAreFree ==
    \A vid \in active_list : vertex_states[vid] = "FREE"

\* a scatter has signalled a vertex into active_list while its signaller is
\* still RUNNING
C31_Witness ==
    /\ sig_log.outcome = "inserted"
    /\ sig_log.vid \in active_list
    /\ \E w \in Workers : pc[w] \in {"scatter_out", "scatter_in"}
                          /\ vertex_states[job_vid[w]] = "RUNNING"


\* C32: in_use[x] is true exactly for the vertices x of N(V), V RUNNING, and
\* the neighbourhoods of two distinct RUNNING vertices are disjoint (so a
\* release clears only flags of its own neighbourhood).
C32_InUseIsRunningNeighbourhood ==
    /\ \A x \in Vids :
          in_use[x] <=> \E V \in Vids : vertex_states[V] = "RUNNING" /\ x \in Neigh(V)
    /\ \A V1, V2 \in Vids :
          (V1 # V2 /\ vertex_states[V1] = "RUNNING" /\ vertex_states[V2] = "RUNNING")
             => Neigh(V1) \cap Neigh(V2) = {}

\* two vertices are RUNNING at once, each with a neighbour, all four flags set
C32_Witness ==
    \E V1, V2 \in Vids :
        /\ V1 # V2
        /\ vertex_states[V1] = "RUNNING" /\ vertex_states[V2] = "RUNNING"
        /\ Neigh(V1) # {V1} /\ Neigh(V2) # {V2}
        /\ \A x \in Neigh(V1) \cup Neigh(V2) : in_use[x]


\* C33: get_next_job returns false to a worker only with active_list empty
\* and num_idle_threads = num_threads, every other worker waiting in
\* get_next_job or gone and no vertex SCHEDULED or RUNNING; once a worker has
\* been returned false no worker is handed a job or is inside a vertex
\* program any more; and num_idle_threads never exceeds num_threads.
C33_ExitOnlyAtQuiescence ==
    /\ [](num_idle_threads <= num_threads)
    /\ [](\A w \in Workers :
            pc[w] = "done"
              => /\ active_list = {}
                 /\ num_idle_threads = num_threads
                 /\ \A x \in Workers : pc[x] \in {"wait_no_jobs", "woken_no_jobs", "done"}
                 /\ \A v \in Vids : vertex_states[v] \notin {"SCHEDULED", "RUNNING"})
    /\ [][\A w \in Workers :
            (pc[w] # "done" /\ pc'[w] = "done")
              => /\ pc[w] \in {"get_next_job", "woken_no_jobs"}
                 /\ active_list = {}
                 /\ num_idle_threads' = num_threads]_vars

\* a worker has been returned false while another one, woken by its
\* notify_all, has not yet left get_next_job, after a run in which a scatter
\* signalled a vertex
C33_Witness ==
    /\ num_threads >= 2
    /\ \E w \in Workers : pc[w] = "done"
    /\ \E x \in Workers : pc[x] = "woken_no_jobs"
    /\ sig_log.outcome = "inserted"


\* ------------------------------------------------------------------------
\* Edge lists of the graph
\* ------------------------------------------------------------------------

\* C37 as claimed: after any sequence of add_vertex and add_edge calls every
\* edge object is referenced exactly once by the out_edges of the vertex
\* bound to its source id, exactly once by the in_edges of the vertex bound
\* to its target id, and by no other list; and the vertex bound at table
\* index i has id i.
C37_EdgeListsConsistent ==
    /\ \A e \in 1..Len(g.edges) : \A o \in 1..Len(g.objs) :
          LET src == g.edges[e].source_vid
              tgt == g.edges[e].target_vid
              outs == g.objs[o].out_edges
              ins == g.objs[o].in_edges
          IN /\ Cardinality({k \in 1..Len(outs) : outs[k] = e})
                  = IF Bound(g, src) /\ g.vertices[src + 1] = o THEN 1 ELSE 0
             /\ Cardinality({k \in 1..Len(ins) : ins[k] = e})
                  = IF Bound(g, tgt) /\ g.vertices[tgt + 1] = o THEN 1 ELSE 0
    /\ \A i \in 0..(NumVertices(g) - 1) : Bound(g, i) => VertexOf(g, i).vid = i


\* ------------------------------------------------------------------------
\* SPM contents at release and across the engine's calls
\* ------------------------------------------------------------------------

\* C38 as claimed: when a worker is about to call
\* release_exclusive_access(vid), no live SPM slot carries the tag of the
\* data of an edge incident to vid or of a neighbour of vid: everything
\* loaded on behalf of vid's program has been evicted, for every look-ahead
\* distance, with caching on or off, on a gather-cache hit or miss.
C38_NoResidueAtRelease ==
    \A w \in Workers :
       pc[w] = "release" =>
          /\ \A x \in Neigh(job_vid[w]) \ {job_vid[w]} : ~VResident(SPM, x)
          /\ \A e \in Range(Vertex(job_vid[w]).in_edges) \cup Range(Vertex(job_vid[w]).out_edges) :
                ~EResident(SPM, e)


\* the default program with look-ahead, with the gather cache on or off:
\* the driver constructs the engine on a dense graph, may call signal_all()
\* and calls start(); the scatter of the program may signal the far endpoint
\* of each edge it visits
InitPrefetch ==
    /\ g \in {BuildGraph(EmptyGraph, s) : s \in {PairScript, PathScript, RankFanInScript}}
    /\ num_threads \in 1..MaxThreads
    /\ load_ahead_distance \in 0..MaxLookAhead
    /\ program = "DEFAULT"
    /\ active_list = {}
    /\ vertex_states = [v \in Vids |-> "FREE"]
    /\ in_use = [v \in Vids |-> FALSE]
    /\ num_idle_threads = 0
    /\ phase = "constructed"
    /\ pc = [w \in Workers |-> "unborn"]
    /\ job_vid = [w \in Workers |-> 0 - 1]
    /\ block = [w \in Workers |-> 0 - 1]
    /\ loc = [w \in Workers |-> LocInit]
    /\ SPM = SPMInit
    /\ counters = CountersInit
    /\ aborted = "none"
    /\ signals_left = MaxSignals
    /\ sig_log = [vid |-> 0 - 1, outcome |-> "none"]
    /\ call = NoCall
    /\ caching_enabled \in BOOLEAN
    /\ gather_cache = [v \in Vids |-> gather_type_default]
    /\ has_cache = [v \in Vids |-> FALSE]
    /\ posting = [w \in Workers |-> NoPost]
    /\ cache_hist = [v \in Vids |-> NoHist]
    /\ running_vertices = {}
    /\ deferred_activation_list = {}

SpecPrefetch == InitPrefetch /\ [][Next]_vars

\* C39 as claimed: in every state the engine reaches no two slots in the
\* live region of a slab carry the same non-zero tag: the data of a vertex
\* or of an edge is resident at most once, for every look-ahead distance,
\* with caching on or off.
C39_TagsUnique ==
    /\ \A a, b \in VSlots(SPM) :
          (a # b /\ SPM2REG(SPM, a) # SPM_NULL) => SPM2REG(SPM, a) # SPM2REG(SPM, b)
    /\ \A a, b \in ESlots(SPM) :
          (a # b /\ SPM2REG(SPM, a) # SPM_NULL) => SPM2REG(SPM, a) # SPM2REG(SPM, b)


\* ------------------------------------------------------------------------
\* The four mutexes of the SPM interface
\* ------------------------------------------------------------------------
\* the mutexes in their order: 1 vslab_mutex, 2 eslab_mutex,
\* 3 vslot_reloc_mutex, 4 eslot_reloc_mutex.  What a worker holds between
\* two steps of its call, and the ones it is about to lock, in the order in
\* which its next step locks them.
HeldBy(w) ==
    IF pc[w] \in {"lv_extend", "lv_lock_e", "lv_count", "le_lock_e"} THEN {1}
    ELSE IF pc[w] = "le_extend" THEN {2}
    ELSE {}
LocksNext(w) ==
    IF pc[w] \in {"lv_lock", "le_lock_v"} THEN <<1>>
    ELSE IF pc[w] = "lv_lock_e" THEN <<2, 4>>
    ELSE IF pc[w] = "le_lock_e" THEN <<2, 3>>
    ELSE <<>>
\* the worker waits for a mutex that another worker holds
Blocked(w) ==
    \/ pc[w] \in {"lv_lock", "le_lock_v"} /\ ~vslab_mutex_free
    \/ pc[w] \in {"lv_lock_e", "le_lock_e"} /\ ~eslab_mutex_free

\* C35: a thread inside an SPM call that holds a mutex only locks mutexes
\* that come later in the order (vslab, eslab, vslot_reloc, eslot_reloc),
\* each mutex has one holder at most, and no state is reached in which a
\* caller waits and every caller inside a call waits for a mutex held by
\* another one.
C35_LockOrder ==
    /\ \A w \in Workers : \A k \in 1..Len(LocksNext(w)) :
          /\ \A h \in HeldBy(w) : h < LocksNext(w)[k]
          /\ \A j \in 1..(k - 1) : LocksNext(w)[j] < LocksNext(w)[k]
    /\ \A m \in 1..4 : Cardinality({w \in Workers : m \in HeldBy(w)}) <= 1
    /\ (\E w \in Workers : Blocked(w))
          => \E w \in Workers : pc[w] # "idle" /\ ~Blocked(w)
\* load_vdata holds vslab_mutex and waits for eslab_mutex while load_edata,
\* past its first scope, waits for vslab_mutex
C35_Witness ==
    \E a, b \in Workers : /\ pc[a] = "lv_lock_e"
                          /\ pc[b] = "le_lock_v"
                          /\ Blocked(b)
                          /\ ~Blocked(a)


\* ------------------------------------------------------------------------
\* Reads and writes of resident data among concurrent calls
\* ------------------------------------------------------------------------
\* a load of the vertex / edge is under way in some worker
LoadingV(vid) ==
    \E w \in Workers : /\ pc[w] \in {"lv_lock", "lv_extend", "lv_lock_e", "lv_count"}
                       /\ loc[w].item = g.vertices[vid + 1]
LoadingE(e) ==
    \E w \in Workers : /\ pc[w] \in {"le_extend", "le_lock_v", "le_lock_e", "le_count"}
                       /\ loc[w].item = e

\* C36 as claimed: for a resident vertex (edge) that is not itself being
\* loaded or removed, every step of a call on another item, a compaction
\* that relocates its slot included, leaves it resident with the same
\* payload, write_vdata (write_edata) on it makes the payload the word
\* written, and read_vdata (read_edata) succeeds and returns the payload
\* (vertices 0..7 and edges 1..7 of the graph of the concurrent SPM runs).
C36_ReadsLatestWord ==
    [][LET Called(ops, x) == /\ call'.n # call.n
                             /\ call'.op \in ops
                             /\ call'.args[1] = x
       IN /\ \A vid \in 0..7 :
               LET tag == AddrOfVData(g.vertices[vid + 1])
                   old == find_vdata(SPM, tag)
                   new == find_vdata(SPM', tag)
               IN (/\ old # SPM_NULL
                   /\ ~LoadingV(vid)
                   /\ ~Called({"load_vdata", "remove_vdata"}, vid))
                     => /\ new # SPM_NULL
                        /\ SPM2REG(SPM', new + 8)
                             = IF Called({"write_vdata"}, vid) THEN call'.args[2]
                               ELSE SPM2REG(SPM, old + 8)
                        /\ Called({"read_vdata"}, vid)
                             => call'.ret /\ call'.args[2] = SPM2REG(SPM, old + 8)
          /\ \A e \in 1..7 :
               LET tag == AddrOfEData(e)
                   old == find_edata(SPM, tag)
                   new == find_edata(SPM', tag)
               IN (/\ old # SPM_NULL
                   /\ ~LoadingE(e)
                   /\ ~Called({"load_edata", "remove_edata"}, e))
                     => /\ new # SPM_NULL
                        /\ SPM2REG(SPM', new + 8)
                             = IF Called({"write_edata"}, e) THEN call'.args[2]
                               ELSE SPM2REG(SPM, old + 8)
                        /\ Called({"read_edata"}, e)
                             => call'.ret /\ call'.args[2] = SPM2REG(SPM, old + 8)]_vars


\* ------------------------------------------------------------------------
\* The free lists of the slabs
\* ------------------------------------------------------------------------
\* SPM states with empty slots inside the slabs and no room between them.
\* Edge slab: 8 slots are filled (edge 2 twice), some are emptied and the
\* last one is removed, which leaves an empty slot last, as the head of the
\* free list (first fill), in the middle of it (second) or at its end
\* (third); 7 vertices then take the rest.  Vertex slab: the same with 8
\* vertices, and 6 edges taking what load_edata can extend into.
HoleFills ==
    LET E8 == [i \in 1..7 |-> <<"load_edata", i>>] \o << <<"load_edata", 2>> >>
        V7 == [i \in 1..7 |-> <<"load_vdata", i - 1>>]
        V8 == [i \in 1..8 |-> <<"load_vdata", i - 1>>]
        E6 == [i \in 1..6 |-> <<"load_edata", i>>]
        re(e) == <<"remove_edata", e>>
        rv(v) == <<"remove_vdata", v>>
    IN { E8 \o <<re(2), re(7), re(2)>> \o V7,
         E8 \o <<re(3), re(7), re(2), re(2)>> \o V7,
         E8 \o <<re(7), re(2), re(2)>> \o V7,
         V8 \o <<rv(2), rv(6), rv(7)>> \o E6,
         V8 \o <<rv(3), rv(6), rv(2), rv(7)>> \o E6,
         V8 \o <<rv(6), rv(2), rv(7)>> \o E6 }

\* the driver's state after one of these fills
InitHoles ==
    /\ g = BuildGraph(EmptyGraph, SpmScript)
    /\ num_threads = 1
    /\ load_ahead_distance = 0
    /\ program = "DEFAULT"
    /\ active_list = {}
    /\ vertex_states = [v \in Vids |-> "FREE"]
    /\ in_use = [v \in Vids |-> FALSE]
    /\ num_idle_threads = 0
    /\ phase = "spm_driver"
    /\ pc = [w \in Workers |-> "unborn"]
    /\ job_vid = [w \in Workers |-> 0 - 1]
    /\ block = [w \in Workers |-> 0 - 1]
    /\ loc = [w \in Workers |-> LocInit]
    /\ \E fill \in HoleFills :
          LET st == RunCalls(g, [SPM |-> SPMInit, objs |-> g.objs, counters |-> CountersInit], fill)
          IN /\ SPM = st.SPM
             /\ counters = st.counters
    /\ aborted = "none"
    /\ signals_left = 0
    /\ sig_log = [vid |-> 0 - 1, outcome |-> "none"]
    /\ call = NoCall
    /\ caching_enabled = FALSE
    /\ gather_cache = [v \in Vids |-> gather_type_default]
    /\ has_cache = [v \in Vids |-> FALSE]
    /\ posting = [w \in Workers |-> NoPost]
    /\ cache_hist = [v \in Vids |-> NoHist]
    /\ running_vertices = {}
    /\ deferred_activation_list = {}

SpecHoles == InitHoles /\ [][NextSPM]_vars

\* the slots reached from head by following the links in the payload
\* fields, in order; the walk gives up after fuel slots
RECURSIVE FreeWalk(_, _, _)
FreeWalk(S, head, fuel) ==
    IF head = SPM_NULL \/ fuel = 0 THEN <<>>
    ELSE IF head < 0 \/ head + 8 >= SPM_SIZE THEN <<head>>
    ELSE <<head>> \o FreeWalk(S, AsAddr(SPM2REG(S, head + 8)), fuel - 1)

\* the walk from head visits exactly the slots of the set, each once
WalkIs(S, head, slots) ==
    LET walk == FreeWalk(S, head, Cardinality(slots) + 1)
    IN /\ Len(walk) = Cardinality(slots)
       /\ {walk[i] : i \in 1..Len(walk)} = slots

\* C34: in every state the links from vempty_head (eempty_head) visit,
\* without repetition and ending at 0, exactly the slots of the live region
\* of the vertex (edge) slab whose tag is 0, also after a compaction that
\* drops an empty last slot of the other slab from the head or from the
\* middle of its free list.
C34_FreeLists ==
    /\ WalkIs(SPM, SPM2REG(SPM, ADDR_VEMPTY_HEAD),
              {a \in VSlots(SPM) : SPM2REG(SPM, a) = SPM_NULL})
    /\ WalkIs(SPM, SPM2REG(SPM, ADDR_EEMPTY_HEAD),
              {a \in ESlots(SPM) : SPM2REG(SPM, a) = SPM_NULL})


\* ------------------------------------------------------------------------
\* The older engine (src/src/async_engine.hpp): deferred activation
\* ------------------------------------------------------------------------
\* The older engine runs vertex programs without any neighbourhood locking
\* and without the SPM.  Its graph keeps the vertices in a map keyed by id;
\* on the gap-free graphs used here the keys are the indices of g.vertices.
\* Worker positions: "get_next_job", "wait_no_jobs", "woken_no_jobs",
\* "execute_vprog" (from the return of get_next_job up to the mutex-protected
\* block of thread_start) and "done".

\* the vertices a vertex program run on vid has a handle of and may pass to
\* context.signal: vid itself and the far ends of its edges
SignalTargetsOlder(vid) ==
    {vid} \cup Range(InNeighIds(Vertex(vid))) \cup Range(OutNeighIds(Vertex(vid)))

\* the branch the older internal_signal takes for vid
internal_signal_older(vid) ==
    IF vid \in active_list \/ vid \in deferred_activation_list THEN "already_active"
    ELSE IF vid \in running_vertices THEN "deferred"
    ELSE "inserted"

\* signal_all() of the older engine, called by the driver before start()
SignalAllOlder ==
    /\ phase = "constructed"
    /\ phase' = "signalled"
    /\ active_list' = active_list \cup Vids
    /\ UNCHANGED <<g, num_threads, load_ahead_distance, program, vertex_states,
                   in_use, num_idle_threads, pc, job_vid, block, loc, SPM,
                   counters, aborted, signals_left, sig_log>>
    /\ UNCHANGED call
    /\ UNCHANGED cache_vars
    /\ UNCHANGED deferred_vars

\* start() of the older engine: the worker threads are created
StartOlder ==
    /\ phase \in {"constructed", "signalled"}
    /\ phase' = "started"
    /\ pc' = [w \in Workers |-> "get_next_job"]
    /\ UNCHANGED <<g, num_threads, load_ahead_distance, program, active_list,
                   vertex_states, in_use, num_idle_threads, job_vid, block, loc,
                   SPM, counters, aborted, signals_left, sig_log>>
    /\ UNCHANGED call
    /\ UNCHANGED cache_vars
    /\ UNCHANGED deferred_vars

\* start() of the older engine: every thread has been joined
StartReturnsOlder ==
    /\ phase = "started"
    /\ \A w \in Workers : pc[w] = "done"
    /\ phase' = "returned"
    /\ UNCHANGED <<g, num_threads, load_ahead_distance, program, active_list,
                   vertex_states, in_use, num_idle_threads, pc, job_vid, block,
                   loc, SPM, counters, aborted, signals_left, sig_log>>
    /\ UNCHANGED call
    /\ UNCHANGED cache_vars
    /\ UNCHANGED deferred_vars

\* the older get_next_job after its wait loop, with idle the value of
\* num_idle_threads at that point
GetNextJobTailOlder(w, idle) ==
    \/ /\ active_list = {}
       /\ idle < num_threads
       /\ pc' = [pc EXCEPT ![w] = "wait_no_jobs"]
       /\ num_idle_threads' = idle
       /\ UNCHANGED <<active_list, job_vid, running_vertices>>
    \/ /\ active_list = {}
       /\ idle >= num_threads
       /\ pc' = [x \in Workers |->
                   IF x = w THEN "done"
                   ELSE IF pc[x] = "wait_no_jobs" THEN "woken_no_jobs"
                   ELSE pc[x]]
       /\ num_idle_threads' = idle
       /\ UNCHANGED <<active_list, job_vid, running_vertices>>
    \/ /\ active_list # {}
       /\ \E ret_vid \in active_list :
             /\ active_list' = active_list \ {ret_vid}
             /\ running_vertices' = running_vertices \cup {ret_vid}
             /\ job_vid' = [job_vid EXCEPT ![w] = ret_vid]
       /\ num_idle_threads' = idle - 1
       /\ pc' = [pc EXCEPT ![w] = "execute_vprog"]

\* the older get_next_job from its entry up to the wait, the failure or the job
GetNextJobOlder(w) ==
    /\ pc[w] = "get_next_job"
    /\ GetNextJobTailOlder(w, num_idle_threads + 1)
    /\ UNCHANGED <<g, num_threads, load_ahead_distance, program, vertex_states,
                   in_use, phase, block, loc, SPM, counters, aborted,
                   signals_left, sig_log, deferred_activation_list>>
    /\ UNCHANGED call
    /\ UNCHANGED cache_vars

\* the older get_next_job resumed by a notification of cond_no_jobs
WakeNoJobsOlder(w) ==
    /\ pc[w] = "woken_no_jobs"
    /\ GetNextJobTailOlder(w, num_idle_threads)
    /\ UNCHANGED <<g, num_threads, load_ahead_distance, program, vertex_states,
                   in_use, phase, block, loc, SPM, counters, aborted,
                   signals_left, sig_log, deferred_activation_list>>
    /\ UNCHANGED call
    /\ UNCHANGED cache_vars

\* execute_vprog of the older engine: the vertex program calls
\* context.signal, which enters internal_signal under scheduling_mutex
ExecuteSignalOlder(w) ==
    /\ pc[w] = "execute_vprog"
    /\ signals_left > 0
    /\ signals_left' = signals_left - 1
    /\ \E vid \in SignalTargetsOlder(job_vid[w]) :
          LET br == internal_signal_older(vid)
          IN /\ active_list' = IF br = "inserted" THEN active_list \cup {vid} ELSE active_list
             /\ deferred_activation_list' = IF br = "deferred"
                                            THEN deferred_activation_list \cup {vid}
                                            ELSE deferred_activation_list
             /\ \E wake \in IF br = "inserted" /\ NoJobWaiters # {} THEN NoJobWaiters ELSE {0} :
                   pc' = [x \in Workers |-> IF x = wake THEN "woken_no_jobs" ELSE pc[x]]
             /\ sig_log' = [vid |-> vid, outcome |-> br]
    /\ UNCHANGED <<g, num_threads, load_ahead_distance, program, vertex_states,
                   in_use, num_idle_threads, phase, job_vid, block, loc, SPM,
                   counters, aborted, running_vertices>>
    /\ UNCHANGED call
    /\ UNCHANGED cache_vars

\* a block that erases the vertex from deferred_activation_list without
\* activating it
finish_older_drops(vid) == active_list

\* active_list as the mutex-protected block of thread_start leaves it
finish_older(vid) ==
    IF vid \in deferred_activation_list THEN active_list \cup {vid} ELSE active_list

\* thread_start of the older engine after execute_vprog has returned: the
\* mutex-protected block that performs the deferred activation
ThreadStartFinishOlder(w) ==
    /\ pc[w] = "execute_vprog"
    /\ active_list' = finish_older(job_vid[w])
    /\ deferred_activation_list' = deferred_activation_list \ {job_vid[w]}
    /\ running_vertices' = running_vertices \ {job_vid[w]}
    /\ \E wake \in IF job_vid[w] \in deferred_activation_list /\ NoJobWaiters # {}
                   THEN NoJobWaiters ELSE {0} :
          pc' = [x \in Workers |->
                   IF x = wake THEN "woken_no_jobs"
                   ELSE IF x = w THEN "get_next_job"
                   ELSE pc[x]]
    /\ UNCHANGED <<g, num_threads, load_ahead_distance, program, vertex_states,
                   in_use, num_idle_threads, phase, job_vid, block, loc, SPM,
                   counters, aborted, signals_left, sig_log>>
    /\ UNCHANGED call
    /\ UNCHANGED cache_vars

NextOlder ==
    \/ SignalAllOlder
    \/ StartOlder
    \/ StartReturnsOlder
    \/ \E w \in Workers : GetNextJobOlder(w)
    \/ \E w \in Workers : WakeNoJobsOlder(w)
    \/ \E w \in Workers : ExecuteSignalOlder(w)
    \/ \E w \in Workers : ThreadStartFinishOlder(w)

\* const int num_threads = 4 of the older engine
NUM_THREADS_OLDER == 4

\* runs of a signalling program on the gap-free graphs; the older engine has
\* no look-ahead and always starts NUM_THREADS_OLDER threads
InitOlder == InitWith({<<>>, PairScript}, {NUM_THREADS_OLDER}, {0}, {"DEFAULT"})

SpecOlder == InitOlder /\ [][NextOlder]_vars

\* the workers of the older engine that hold a vertex
RunningOlder == {w \in Workers : pc[w] = "execute_vprog"}

\* C40: in the older engine no vertex is run by two threads at once,
\* running_vertices is exactly the set of vertices being run and is disjoint
\* from active_list, deferred_activation_list holds running vertices only;
\* a signal for a running vertex that is neither active nor deferred puts it
\* into deferred_activation_list and not into active_list, and the end of a
\* run inserts the vertex into active_list exactly when it was deferred,
\* removing it from deferred_activation_list and running_vertices; no other
\* step takes a vertex out of deferred_activation_list
C40_DeferredActivation ==
    /\ [](/\ \A a, b \in RunningOlder : a # b => job_vid[a] # job_vid[b]
          /\ running_vertices = {job_vid[w] : w \in RunningOlder}
          /\ active_list \cap running_vertices = {}
          /\ deferred_activation_list \subseteq running_vertices)
    /\ [][/\ \A vid \in Vids :
               (/\ sig_log' # sig_log
                /\ sig_log'.vid = vid
                /\ vid \in running_vertices
                /\ vid \notin deferred_activation_list)
                  => /\ vid \in deferred_activation_list'
                     /\ active_list' = active_list
          /\ \A w \in Workers :
               (pc[w] = "execute_vprog" /\ pc'[w] = "get_next_job")
                  => LET vid == job_vid[w]
                     IN /\ vid \notin running_vertices'
                        /\ vid \notin deferred_activation_list'
                        /\ vid \in active_list' <=> vid \in deferred_activation_list
                        /\ active_list' \ {vid} = active_list
          /\ \A vid \in deferred_activation_list \ deferred_activation_list' :
               \E w \in Workers :
                  /\ pc[w] = "execute_vprog" /\ pc'[w] = "get_next_job"
                  /\ job_vid[w] = vid]_vars

\* a vertex was signalled while it was running, its run has ended and it is
\* active again, no longer deferred and not running
C40_Witness ==
    /\ sig_log.outcome = "deferred"
    /\ sig_log.vid \in active_list
    /\ sig_log.vid \notin deferred_activation_list
    /\ sig_log.vid \notin running_vertices
    /\ phase = "started"

====
